---- MODULE Spec2Model ----
(***************************************************************************)
(* A model of data-frame-ts: the DataFrame class (a row-major table kept   *)
(* in one flat array, with the Tags collection it owns) and the Tags       *)
(* class.  DataFrame objects and their backing arrays live in a heap, so   *)
(* that sharing between a receiver and a returned table is observable.     *)
(***************************************************************************)
EXTENDS Integers, Sequences, FiniteSets, TLC

VARIABLES frames, arrays, coll, last, pre, scenario

vars == <<frames, arrays, coll, last, pre, scenario>>

(***************************************************************************)
(* Bounds of the model and the sets the inputs are drawn from.             *)
(***************************************************************************)
MaxRows == 2
MaxCols == 2
MaxTags == 2
MaxEditTags == 1
TallRows == 3

CellValues == {"c0", "c1"}
TagNames == {"n"}
TagValues == {"x", "y"}
Mappers == {"flip", "const"}

RowIdx == -1 .. MaxRows
ColIdx == -1 .. MaxCols

FrameIds == 1 .. 3
ArrIds == 1 .. 3

(***************************************************************************)
(* JavaScript values and array primitives the code relies on.              *)
(***************************************************************************)
Undefined == "undefined"

NaN == -99

MinOf(a, b) == IF a < b THEN a ELSE b

MaxOf(a, b) == IF a > b THEN a ELSE b

\* relational operators of JavaScript numbers: every comparison with NaN is false
JsLt(a, b) == a # NaN /\ b # NaN /\ a < b

JsGe(a, b) == a # NaN /\ b # NaN /\ a >= b

JsEq(a, b) == a # NaN /\ b # NaN /\ a = b

isNaN(a) == a = NaN

\* a relative index of slice/splice, clamped to 0 .. length
JsClamp(len, i) == IF i < 0 THEN MaxOf(len + i, 0) ELSE MinOf(i, len)

\* Array.prototype.slice(start, end)
JsSlice(arr, start, end) ==
    LET s == JsClamp(Len(arr), start)
        e == JsClamp(Len(arr), end)
    IN  IF e <= s THEN <<>> ELSE SubSeq(arr, s + 1, e)

\* Array.prototype.splice(start, deleteCount, ...items): the array afterwards
JsSplice(arr, start, deleteCount, items) ==
    LET s == JsClamp(Len(arr), start)
        dc == MinOf(MaxOf(deleteCount, 0), Len(arr) - s)
    IN  SubSeq(arr, 1, s) \o items \o SubSeq(arr, s + dc + 1, Len(arr))

\* arr[i]: undefined outside the array
JsGet(arr, i) == IF i >= 0 /\ i < Len(arr) THEN arr[i + 1] ELSE Undefined

RECURSIVE Holes(_, _)
\* the array grown to the length n, its new elements undefined
Holes(arr, n) == IF Len(arr) >= n THEN arr ELSE Holes(Append(arr, Undefined), n)

\* arr[i] = v: an index at or past the end grows the array
JsSet(arr, i, v) ==
    IF i < 0 THEN arr
    ELSE IF i < Len(arr) THEN [arr EXCEPT ![i + 1] = v]
    ELSE Append(Holes(arr, i), v)

RECURSIVE Flatten(_)
\* rows.flatMap(row => row)
Flatten(rows) == IF rows = <<>> THEN <<>> ELSE Head(rows) \o Flatten(Tail(rows))

Reverse(s) == [i \in 1 .. Len(s) |-> s[Len(s) + 1 - i]]

Range(s) == {s[i] : i \in 1 .. Len(s)}

\* Array.prototype.findIndex; -1 when no element passes the test
FindIndex(s, Test(_)) ==
    IF \E i \in 1 .. Len(s) : Test(s[i])
    THEN (CHOOSE i \in 1 .. Len(s) : Test(s[i]) /\ \A j \in 1 .. (i - 1) : ~Test(s[j])) - 1
    ELSE -1

\* Array.prototype.some
Some(s, Test(_)) == \E i \in 1 .. Len(s) : Test(s[i])

\* Array.prototype.map
Map(s, F(_)) == [i \in 1 .. Len(s) |-> F(s[i])]

(***************************************************************************)
(* result-fn: a success or a failure.                                      *)
(***************************************************************************)
successResult(v) == [status |-> "success", val |-> v]

failureResult(msg) == [status |-> "failure", val |-> msg]

\* Result.getOrElse
getOrElse(result, default) == IF result.status = "success" THEN result.val ELSE default

(***************************************************************************)
(* Coordinates and tags (tags.ts).                                         *)
(***************************************************************************)
RowCoordinate(row) == [kind |-> "row", row |-> row, column |-> NaN]

ColumnCoordinate(column) == [kind |-> "column", row |-> NaN, column |-> column]

CellCoordinate(row, column) == [kind |-> "cell", row |-> row, column |-> column]

\* TagCoordinate.coordinate(): [row, column], NaN for the axis not bound
coordinate(c) == <<c.row, c.column>>

\* RowCoordinate.equals, ColumnCoordinate.equals, CellCoordinate.equals
CoordEquals(c, other) ==
    CASE c.kind = "row" -> other.kind = "row" /\ c.row = other.row
      [] c.kind = "column" -> other.kind = "column" /\ c.column = other.column
      [] OTHER -> other.kind = "cell" /\ c.row = other.row /\ c.column = other.column

\* toString of the three coordinate classes
CoordToString(c) ==
    CASE c.kind = "row" -> "(" \o ToString(c.row) \o ", *)"
      [] c.kind = "column" -> "(*, " \o ToString(c.column) \o ")"
      [] OTHER -> "(" \o ToString(c.row) \o ", " \o ToString(c.column) \o ")"

newTag(name, value, coord) == [name |-> name, value |-> value, coordinate |-> coord]

newRowTag(name, value, coord) == newTag(name, value, coord)

newColumnTag(name, value, coord) == newTag(name, value, coord)

newCellTag(name, value, coord) == newTag(name, value, coord)

isRowTag(tag) == tag.coordinate.kind = "row"

isColumnTag(tag) == tag.coordinate.kind = "column"

isCellTag(tag) == tag.coordinate.kind = "cell"

\* coordinate.toString().replace(/ /g, "")
CoordIdString(c) ==
    CASE c.kind = "row" -> "(" \o ToString(c.row) \o ",*)"
      [] c.kind = "column" -> "(*," \o ToString(c.column) \o ")"
      [] OTHER -> "(" \o ToString(c.row) \o "," \o ToString(c.column) \o ")"

\* Tag.id: `tag-${name}-${coordinate.toString().replace(/ /g, "")}`
TagId(tag) == "tag-" \o tag.name \o "-" \o CoordIdString(tag.coordinate)

\* Tag.equals: name, value.toString() and coordinate
TagEquals(tag, other) ==
    /\ tag.name = other.name
    /\ tag.value = other.value
    /\ CoordEquals(tag.coordinate, other.coordinate)

\* the predicate tg.name === name && tg.coordinate.equals(coordinate)
SameKey(tag, name, coord) == tag.name = name /\ CoordEquals(tag.coordinate, coord)

(***************************************************************************)
(* The Tags collection (tags.ts): an array of tags, never changed once the *)
(* Tags object that holds it has been handed out.                          *)
(***************************************************************************)
Tags_empty == <<>>

\* Tags.copy: a new Tags object over a slice of the array
Tags_copy(tags) == JsSlice(tags, 0, Len(tags))

Tags_length(tags) == Len(tags)

Tags_filter(tags, predicate(_)) == SelectSeq(tags, predicate)

Tags_hasTagFor(tags, name, coord) == Some(tags, LAMBDA tag : SameKey(tag, name, coord))

Tags_hasUniqueTagFor(tags, name, coord) ==
    Len(SelectSeq(tags, LAMBDA tag : SameKey(tag, name, coord))) = 1

Tags_hasTagWithName(tags, name) == Some(tags, LAMBDA tag : tag.name = name)

Tags_tagsForCoordinate(tags, coord) ==
    Tags_filter(tags, LAMBDA tag : CoordEquals(tag.coordinate, coord))

Tags_uniqueTagFor(tags, name, coord) ==
    LET found == SelectSeq(tags, LAMBDA tag : SameKey(tag, name, coord))
    IN  IF Len(found) = 0 THEN failureResult("Tags::uniqueTagFor: no tag")
        ELSE IF Len(found) > 1 THEN failureResult("Tags::uniqueTagFor: multiple tags")
        ELSE successResult(found[1])

Tags_idForTag(tags, name, coord) ==
    LET r == Tags_uniqueTagFor(tags, name, coord)
    IN  IF r.status = "success" THEN successResult(TagId(r.val)) ELSE r

RECURSIVE DeDup(_, _)
\* the reduce of Tags.with: push a tag unless one with its name and coordinate is there
DeDup(rest, accumulatedTags) ==
    IF rest = <<>> THEN accumulatedTags
    ELSE LET currentTag == Head(rest)
         IN  IF ~Some(accumulatedTags,
                      LAMBDA tg : SameKey(tg, currentTag.name, currentTag.coordinate))
             THEN DeDup(Tail(rest), Append(accumulatedTags, currentTag))
             ELSE DeDup(Tail(rest), accumulatedTags)

\* Tags.with de-duplicated from the front, so that the earlier tag stays
Tags_with_FirstWins(tag) == DeDup(tag, <<>>)

\* Tags.with: de-duplicated from the back, so that a later tag overwrites an earlier one
Tags_with(tag) == Reverse(DeDup(Reverse(tag), <<>>))

(***************************************************************************)
(* The methods that build a new Tags object, on the arrays of the Tags     *)
(* objects alive during the call: S is the sequence of these arrays, a     *)
(* Tags object is the index of its array, and the receiver is `this`.      *)
(* Each yields the arrays after the call and what the call returns.        *)
(***************************************************************************)
\* copy that hands out the receiver's own array
Tags_copyOn_SharesArray(S, this) == [arrays |-> S, ref |-> this]

\* Tags.copy: new Tags(this.tags.slice())
Tags_copyOn(S, this) ==
    [arrays |-> Append(S, JsSlice(S[this], 0, Len(S[this]))), ref |-> Len(S) + 1]

Tags_addOn(S, this, tag) ==
    LET c == Tags_copyOn(S, this)
        tagsObject == c.ref
    IN  IF Tags_hasTagFor(c.arrays[this], tag.name, tag.coordinate)
        THEN [arrays |-> c.arrays, returned |-> failureResult("Tags::add: tag exists")]
        ELSE [arrays |-> [c.arrays EXCEPT ![tagsObject] = Append(@, tag)],
              returned |-> successResult(tagsObject)]

Tags_replaceOn(S, this, tag) ==
    LET c == Tags_copyOn(S, this)
        tagsObject == c.ref
    IN  IF ~Tags_hasUniqueTagFor(c.arrays[this], tag.name, tag.coordinate)
        THEN [arrays |-> c.arrays, returned |-> failureResult("Tags::replace: no unique tag")]
        ELSE LET index == FindIndex(c.arrays[tagsObject],
                                    LAMBDA tg : SameKey(tg, tag.name, tag.coordinate))
             IN  [arrays |-> [c.arrays EXCEPT ![tagsObject] = JsSet(@, index, tag)],
                  returned |-> successResult(tagsObject)]

\* addOrReplace that only ever adds: a tag that is there keeps its value
Tags_addOrReplaceOn_AddOnly(S, this, tag) ==
    LET r == Tags_addOn(S, this, tag)
        c == Tags_copyOn(r.arrays, this)
    IN  [arrays |-> c.arrays, returned |-> successResult(getOrElse(r.returned, c.ref))]

\* this.replace(tag).getOrElse(this.copy()) resp. this.add(tag).getOrElse(this.copy())
Tags_addOrReplaceOn(S, this, tag) ==
    LET r == IF Tags_hasTagFor(S[this], tag.name, tag.coordinate)
             THEN Tags_replaceOn(S, this, tag)
             ELSE Tags_addOn(S, this, tag)
        c == Tags_copyOn(r.arrays, this)
    IN  [arrays |-> c.arrays, returned |-> successResult(getOrElse(r.returned, c.ref))]

\* remove that takes out the first tag of the collection, whichever tag has the id
Tags_removeOn_SplicesFirst(S, this, id) ==
    LET index == FindIndex(S[this], LAMBDA tag : TagId(tag) = id)
    IN  IF index >= 0
        THEN LET c == Tags_copyOn(S, this)
                 tagsObject == c.ref
             IN  [arrays |-> [c.arrays EXCEPT ![tagsObject] = JsSplice(@, 0, 1, <<>>)],
                  returned |-> successResult(tagsObject)]
        ELSE [arrays |-> S, returned |-> failureResult("Tags::remove: no tag with this ID")]

Tags_removeOn(S, this, id) ==
    LET index == FindIndex(S[this], LAMBDA tag : TagId(tag) = id)
    IN  IF index >= 0
        THEN LET c == Tags_copyOn(S, this)
                 tagsObject == c.ref
             IN  [arrays |-> [c.arrays EXCEPT ![tagsObject] = JsSplice(@, index, 1, <<>>)],
                  returned |-> successResult(tagsObject)]
        ELSE [arrays |-> S, returned |-> failureResult("Tags::remove: no tag with this ID")]

\* what a call returns, with the array of the Tags object it hands back
Tags_result(R) ==
    IF R.returned.status = "success" THEN successResult(R.arrays[R.returned.val])
    ELSE R.returned

Tags_add(tags, tag) == Tags_result(Tags_addOn(<<tags>>, 1, tag))

Tags_replace(tags, tag) == Tags_result(Tags_replaceOn(<<tags>>, 1, tag))

\* addOrReplace as an append that never looks for the tag
Tags_addOrReplace_Append(tags, tag) == Append(Tags_copy(tags), tag)

Tags_addOrReplace(tags, tag) == Tags_result(Tags_addOrReplaceOn(<<tags>>, 1, tag)).val

Tags_remove(tags, id) == Tags_result(Tags_removeOn(<<tags>>, 1, id))

\* Tags.tagsFor that leaves out the column tags
Tags_tagsFor_IgnoresColumns(tags, rowIndex, columnIndex) ==
    Tags_filter(tags, LAMBDA tag :
        LET c1 == coordinate(tag.coordinate)[1]
            c2 == coordinate(tag.coordinate)[2]
        IN  IF tag.coordinate.kind = "row" /\ isNaN(c2) THEN JsEq(c1, rowIndex)
            ELSE IF tag.coordinate.kind = "cell" THEN JsEq(c1, rowIndex) /\ JsEq(c2, columnIndex)
            ELSE FALSE)

\* Tags.tagsFor: the tags whose coordinate covers the cell
Tags_tagsFor(tags, rowIndex, columnIndex) ==
    Tags_filter(tags, LAMBDA tag :
        LET c1 == coordinate(tag.coordinate)[1]
            c2 == coordinate(tag.coordinate)[2]
        IN  IF tag.coordinate.kind = "row" /\ isNaN(c2) THEN JsEq(c1, rowIndex)
            ELSE IF tag.coordinate.kind = "column" /\ isNaN(c1) THEN JsEq(c2, columnIndex)
            ELSE IF tag.coordinate.kind = "cell" THEN JsEq(c1, rowIndex) /\ JsEq(c2, columnIndex)
            ELSE FALSE)

(***************************************************************************)
(* The remaps of the Tags collection that DataFrame calls after a          *)
(* structural edit.  Each maps the coordinate of every tag it keeps and    *)
(* keeps the order of the collection.                                      *)
(***************************************************************************)
Retag(tag, coord) == newTag(tag.name, tag.value, coord)

Tags_transpose(tags) ==
    Map(tags, LAMBDA tag :
        CASE isRowTag(tag) -> Retag(tag, ColumnCoordinate(tag.coordinate.row))
          [] isColumnTag(tag) -> Retag(tag, RowCoordinate(tag.coordinate.column))
          [] OTHER -> Retag(tag, CellCoordinate(tag.coordinate.column, tag.coordinate.row)))

Tags_insertRow(tags, rowIndex) ==
    Map(tags, LAMBDA tag :
        CASE isRowTag(tag) /\ tag.coordinate.row >= rowIndex ->
                Retag(tag, RowCoordinate(tag.coordinate.row + 1))
          [] isCellTag(tag) /\ tag.coordinate.row >= rowIndex ->
                Retag(tag, CellCoordinate(tag.coordinate.row + 1, tag.coordinate.column))
          [] OTHER -> tag)

Tags_insertColumn(tags, columnIndex) ==
    Map(tags, LAMBDA tag :
        CASE isColumnTag(tag) /\ tag.coordinate.column >= columnIndex ->
                Retag(tag, ColumnCoordinate(tag.coordinate.column + 1))
          [] isCellTag(tag) /\ tag.coordinate.column >= columnIndex ->
                Retag(tag, CellCoordinate(tag.coordinate.row, tag.coordinate.column + 1))
          [] OTHER -> tag)

Tags_removeRow(tags, rowIndex) ==
    Map(SelectSeq(tags, LAMBDA tag : isColumnTag(tag) \/ tag.coordinate.row # rowIndex),
        LAMBDA tag :
        CASE isRowTag(tag) /\ tag.coordinate.row > rowIndex ->
                Retag(tag, RowCoordinate(tag.coordinate.row - 1))
          [] isCellTag(tag) /\ tag.coordinate.row > rowIndex ->
                Retag(tag, CellCoordinate(tag.coordinate.row - 1, tag.coordinate.column))
          [] OTHER -> tag)

Tags_removeColumn(tags, columnIndex) ==
    Map(SelectSeq(tags, LAMBDA tag : isRowTag(tag) \/ tag.coordinate.column # columnIndex),
        LAMBDA tag :
        CASE isColumnTag(tag) /\ tag.coordinate.column > columnIndex ->
                Retag(tag, ColumnCoordinate(tag.coordinate.column - 1))
          [] isCellTag(tag) /\ tag.coordinate.column > columnIndex ->
                Retag(tag, CellCoordinate(tag.coordinate.row, tag.coordinate.column - 1))
          [] OTHER -> tag)

Tags_subset(tags, start, end) ==
    LET rowIn(r) == start.row <= r /\ r <= end.row
        colIn(c) == start.column <= c /\ c <= end.column
    IN  Map(SelectSeq(tags, LAMBDA tag :
                CASE isRowTag(tag) -> rowIn(tag.coordinate.row)
                  [] isColumnTag(tag) -> colIn(tag.coordinate.column)
                  [] OTHER -> rowIn(tag.coordinate.row) /\ colIn(tag.coordinate.column)),
            LAMBDA tag :
                CASE isRowTag(tag) -> Retag(tag, RowCoordinate(tag.coordinate.row - start.row))
                  [] isColumnTag(tag) ->
                        Retag(tag, ColumnCoordinate(tag.coordinate.column - start.column))
                  [] OTHER -> Retag(tag, CellCoordinate(tag.coordinate.row - start.row,
                                                        tag.coordinate.column - start.column)))

(***************************************************************************)
(* The heap.  A DataFrame object holds a reference to its data array, its  *)
(* two dimensions and its Tags; H is a record [frames, arrays].            *)
(***************************************************************************)
NoFrame == [data |-> 0, numRows |-> 0, numColumns |-> 0, tags |-> <<>>]

Live(H, f) == H.frames[f].data # 0

EmptyHeap == [frames |-> [f \in FrameIds |-> NoFrame], arrays |-> [a \in ArrIds |-> <<>>]]

\* the array a new [] / slice() / concat() / map() is placed in
FreeArr(H) ==
    CHOOSE a \in ArrIds :
        /\ \A f \in FrameIds : H.frames[f].data # a
        /\ \A b \in ArrIds : (\A f \in FrameIds : H.frames[f].data # b) => a <= b

\* the object a `new DataFrame` is placed in
FreeFrame(H) ==
    CHOOSE g \in FrameIds : ~Live(H, g) /\ \A k \in FrameIds : ~Live(H, k) => g <= k

\* new DataFrame(data, numRows, numColumns, tags), data being a reference
Construct(H, ref, numRows, numColumns, tags) ==
    LET g == FreeFrame(H)
    IN  [frames |-> [H.frames EXCEPT ![g] = [data |-> ref, numRows |-> numRows,
                                             numColumns |-> numColumns, tags |-> tags]],
         arrays |-> H.arrays,
         ref |-> g]

\* new DataFrame(<a fresh array holding content>, numRows, numColumns, tags)
ConstructFresh(H, content, numRows, numColumns, tags) ==
    LET a == FreeArr(H)
    IN  Construct([frames |-> H.frames, arrays |-> [H.arrays EXCEPT ![a] = content]],
                  a, numRows, numColumns, tags)

\* what a method hands back: the heap afterwards and the returned value
Returns(H, result) == [frames |-> H.frames, arrays |-> H.arrays, returned |-> result]

\* a value returned as it is, not wrapped in a Result
Value(v) == [status |-> "value", val |-> v]

\* a method that returns a new DataFrame inside a success
SuccessNew(C) == [frames |-> C.frames, arrays |-> C.arrays, returned |-> successResult(C.ref)]

\* a method that returns the new DataFrame itself
New(C) == [frames |-> C.frames, arrays |-> C.arrays, returned |-> Value(C.ref)]

DataOf(H, this) == H.arrays[H.frames[this].data]

(***************************************************************************)
(* DataFrame (DataFrame.ts).                                               *)
(***************************************************************************)
\* the mapper callbacks the scenarios pass to the map methods
Apply(mapper, value) ==
    IF mapper = "flip"
    THEN (IF value = "c0" THEN "c1" ELSE IF value = "c1" THEN "c0" ELSE value)
    ELSE "c1"

\* a validation that accepts inner arrays of equal length, of length 0 too
validateDimensions_AcceptsEmptyRows(data, rowForm) ==
    LET lens == {Len(data[i]) : i \in 1 .. Len(data)}
        min == CHOOSE n \in lens : \A m \in lens : n <= m
        max == CHOOSE n \in lens : \A m \in lens : n >= m
    IN  IF min = max THEN successResult(data)
        ELSE failureResult(<<"validateDimensions", min, max>>)

validateDimensions(data, rowForm) ==
    LET lens == {Len(data[i]) : i \in 1 .. Len(data)}
        min == CHOOSE n \in lens : \A m \in lens : n <= m
        max == CHOOSE n \in lens : \A m \in lens : n >= m
    IN  IF min = max /\ min > 0 THEN successResult(data)
        ELSE failureResult(<<"validateDimensions", min, max>>)

\* the loop of transpose over a copy of the data
\* a transpose that leaves the storage in row-major order of the receiver
TransposeData_KeepsOrder(data, numRows, numColumns) == data

TransposeData(data, numRows, numColumns) ==
    LET n == IF numRows > 0 /\ numColumns > 0 THEN numRows * numColumns ELSE 0
        len == MaxOf(Len(data), n)
    IN  [k \in 1 .. len |->
            IF k - 1 < n
            THEN JsGet(data, ((k - 1) % numRows) * numColumns + ((k - 1) \div numRows))
            ELSE data[k]]

rowCount(H, this) == H.frames[this].numRows

columnCount(H, this) == H.frames[this].numColumns

isEmpty(H, this) == Len(DataOf(H, this)) = 0

\* transpose without the tags of the receiver
transpose_DropsTags(H, this) ==
    LET F == H.frames[this]
        transposed == TransposeData(DataOf(H, this), F.numRows, F.numColumns)
    IN  New(ConstructFresh(H, transposed, F.numColumns, F.numRows, Tags_empty))

transpose(H, this) ==
    LET F == H.frames[this]
        transposed == TransposeData(DataOf(H, this), F.numRows, F.numColumns)
    IN  New(ConstructFresh(H, transposed, F.numColumns, F.numRows, Tags_transpose(F.tags)))

\* DataFrame.from on a heap that holds the receiver of the calling method, if any
from(H, data, rowForm) ==
    IF Len(data) = 0 THEN SuccessNew(ConstructFresh(H, <<>>, 0, 0, Tags_empty))
    ELSE LET v == validateDimensions(data, rowForm)
         IN  IF v.status = "failure" THEN Returns(H, v)
             ELSE IF rowForm
             THEN SuccessNew(ConstructFresh(H, Flatten(data), Len(data), Len(data[1]), Tags_empty))
             ELSE SuccessNew(ConstructFresh(H,
                     TransposeData(Flatten(data), Len(data), Len(data[1])),
                     Len(data[1]), Len(data), Tags_transpose(Tags_empty)))

\* fromColumnData that reads its input as rows
fromColumnData_AsRows(H, data) == from(H, data, TRUE)

fromColumnData(H, data) == from(H, data, FALSE)

empty(H) == from(H, <<>>, FALSE)

\* copy that hands the receiver's own array to the new table
copy_SharesData(H, this) ==
    LET F == H.frames[this]
    IN  New(Construct(H, F.data, F.numRows, F.numColumns, Tags_copy(F.tags)))

copy(H, this) ==
    LET F == H.frames[this]
        data == DataOf(H, this)
    IN  New(ConstructFresh(H, JsSlice(data, 0, Len(data)), F.numRows, F.numColumns,
                           Tags_copy(F.tags)))

equals(H, this, other) ==
    LET data == DataOf(H, this)
        otherData == DataOf(H, other)
    IN  /\ Len(data) = Len(otherData)
        /\ \A index \in 0 .. (Len(data) - 1) : data[index + 1] = JsGet(otherData, index)

rowSlice(H, this, rowIndex) ==
    LET F == H.frames[this]
    IN  IF rowIndex >= 0 /\ rowIndex < F.numRows
        THEN successResult(JsSlice(DataOf(H, this), rowIndex * F.numColumns,
                                   (rowIndex + 1) * F.numColumns))
        ELSE failureResult("rowSlice: row index out of bounds")

rowSlices(H, this) ==
    [i \in 1 .. H.frames[this].numRows |-> rowSlice(H, this, i - 1).val]

\* the loop `for (i = columnIndex; i < data.length; i += numColumns)`: the indexes it visits
ColumnIndexes(len, columnIndex, numColumns) ==
    IF columnIndex >= len THEN <<>>
    ELSE [k \in 1 .. ((len - 1 - columnIndex) \div numColumns) + 1 |->
            columnIndex + (k - 1) * numColumns]

columnSlice(H, this, columnIndex) ==
    LET F == H.frames[this]
        data == DataOf(H, this)
    IN  IF columnIndex >= 0 /\ columnIndex <= F.numColumns
        THEN IF F.numColumns <= 0 /\ columnIndex < Len(data)
             THEN [status |-> "hang", val |-> "columnSlice: the loop never ends"]
             ELSE successResult(Map(ColumnIndexes(Len(data), columnIndex, F.numColumns),
                                    LAMBDA i : JsGet(data, i)))
        ELSE failureResult("columnSlice: column index out of bounds")

columnSlices(H, this) ==
    [i \in 1 .. H.frames[this].numColumns |-> columnSlice(H, this, i - 1).val]

elementAt(H, this, rowIndex, columnIndex) ==
    LET F == H.frames[this]
    IN  IF rowIndex >= 0 /\ rowIndex < F.numRows /\ columnIndex >= 0 /\ columnIndex <= F.numColumns
        THEN successResult(JsGet(DataOf(H, this), rowIndex * F.numColumns + columnIndex))
        ELSE failureResult("elementAt: index out of bounds")

\* the two nested loops of subFrame
\* a selection read from the top-left corner of the table, whatever the start
SubFrameData_FromOrigin(data, numColumns, start, end) ==
    Flatten([r \in 1 .. (end.row - start.row + 1) |->
                [c \in 1 .. (end.column - start.column + 1) |->
                    JsGet(data, (r - 1) * numColumns + (c - 1))]])

SubFrameData(data, numColumns, start, end) ==
    Flatten([r \in 1 .. (end.row - start.row + 1) |->
                [c \in 1 .. (end.column - start.column + 1) |->
                    JsGet(data, (start.row + r - 1) * numColumns + (start.column + c - 1))]])

\* subFrame that hands the receiver's tags to the selection as they are
subFrame_KeepsTags(H, this, start, end) ==
    LET F == H.frames[this]
    IN  IF \/ start.row < 0 \/ start.row >= F.numRows \/ end.row < 0 \/ end.row >= F.numRows
           \/ start.column < 0 \/ start.column >= F.numColumns
           \/ end.column < 0 \/ end.column >= F.numColumns
        THEN Returns(H, failureResult("subFrame: range out of bounds"))
        ELSE SuccessNew(ConstructFresh(H,
                SubFrameData(DataOf(H, this), F.numColumns, start, end),
                end.row - start.row + 1, end.column - start.column + 1,
                Tags_copy(F.tags)))

subFrame(H, this, start, end) ==
    LET F == H.frames[this]
    IN  IF \/ start.row < 0 \/ start.row >= F.numRows \/ end.row < 0 \/ end.row >= F.numRows
           \/ start.column < 0 \/ start.column >= F.numColumns
           \/ end.column < 0 \/ end.column >= F.numColumns
        THEN Returns(H, failureResult("subFrame: range out of bounds"))
        ELSE SuccessNew(ConstructFresh(H,
                SubFrameData(DataOf(H, this), F.numColumns, start, end),
                end.row - start.row + 1, end.column - start.column + 1,
                Tags_subset(F.tags, start, end)))

\* setElementAt that writes into the receiver's array and hands it to the new table
setElementAt_WritesReceiver(H, this, rowIndex, columnIndex, value) ==
    LET F == H.frames[this]
    IN  IF rowIndex >= 0 /\ rowIndex < F.numRows /\ columnIndex >= 0 /\ columnIndex <= F.numColumns
        THEN LET updated == JsSet(DataOf(H, this), rowIndex * F.numColumns + columnIndex, value)
             IN  SuccessNew(Construct(
                     [frames |-> H.frames, arrays |-> [H.arrays EXCEPT ![F.data] = updated]],
                     F.data, F.numRows, F.numColumns, Tags_copy(F.tags)))
        ELSE Returns(H, failureResult("setElementAt: index out of bounds"))

setElementAt(H, this, rowIndex, columnIndex, value) ==
    LET F == H.frames[this]
    IN  IF rowIndex >= 0 /\ rowIndex < F.numRows /\ columnIndex >= 0 /\ columnIndex <= F.numColumns
        THEN LET updated == JsSet(JsSlice(DataOf(H, this), 0, Len(DataOf(H, this))),
                                  rowIndex * F.numColumns + columnIndex, value)
             IN  SuccessNew(ConstructFresh(H, updated, F.numRows, F.numColumns, Tags_copy(F.tags)))
        ELSE Returns(H, failureResult("setElementAt: index out of bounds"))

setElementInPlaceAt(H, this, rowIndex, columnIndex, value) ==
    LET F == H.frames[this]
    IN  IF rowIndex >= 0 /\ rowIndex < F.numRows /\ columnIndex >= 0 /\ columnIndex <= F.numColumns
        THEN [frames |-> H.frames,
              arrays |-> [H.arrays EXCEPT ![F.data] =
                              JsSet(@, rowIndex * F.numColumns + columnIndex, value)],
              returned |-> successResult(this)]
        ELSE Returns(H, failureResult("setElementAt: index out of bounds"))

insertRowBefore(H, this, rowIndex, row) ==
    LET F == H.frames[this]
        data == DataOf(H, this)
    IN  IF rowIndex < 0 /\ rowIndex >= F.numRows
        THEN Returns(H, failureResult("insertRowBefore: index out of bounds"))
        ELSE IF Len(row) # F.numColumns
        THEN Returns(H, failureResult("insertRowBefore: row length"))
        ELSE LET newRows == JsSlice(data, 0, rowIndex * F.numColumns) \o row
                                \o JsSlice(data, rowIndex * F.numColumns, Len(data))
             IN  SuccessNew(ConstructFresh(H, newRows, F.numRows + 1, F.numColumns,
                                           Tags_insertRow(F.tags, rowIndex)))

pushRow(H, this, row) ==
    LET F == H.frames[this]
    IN  IF Len(row) # F.numColumns
        THEN Returns(H, failureResult("pushRow: row length"))
        ELSE SuccessNew(ConstructFresh(H, DataOf(H, this) \o row, F.numRows + 1, F.numColumns,
                                       Tags_copy(F.tags)))

insertColumnBefore(H, this, columnIndex, column) ==
    LET F == H.frames[this]
    IN  IF columnIndex < 0 /\ columnIndex >= F.numColumns
        THEN Returns(H, failureResult("insertColumnBefore: index out of bounds"))
        ELSE IF Len(column) # F.numRows
        THEN Returns(H, failureResult("insertColumnBefore: column length"))
        ELSE LET sliced == rowSlices(H, this)
                 rows == [i \in 1 .. Len(sliced) |->
                             JsSplice(sliced[i], columnIndex, 0, <<column[i]>>)]
             IN  SuccessNew(ConstructFresh(H, Flatten(rows), F.numRows, F.numColumns + 1,
                                           Tags_insertColumn(F.tags, columnIndex)))

pushColumn(H, this, column) ==
    LET F == H.frames[this]
    IN  IF Len(column) # F.numRows
        THEN Returns(H, failureResult("pushColumn: column length"))
        ELSE LET sliced == rowSlices(H, this)
                 rows == [i \in 1 .. Len(sliced) |-> Append(sliced[i], column[i])]
             IN  from(H, rows, TRUE)

\* deleteRowAt that splices at rowIndex, not at rowIndex * numColumns
deleteRowAt_SplicesAtRowIndex(H, this, rowIndex) ==
    LET F == H.frames[this]
        data == DataOf(H, this)
    IN  IF rowIndex < 0 \/ rowIndex >= F.numRows
        THEN Returns(H, failureResult("deleteRowAt: index out of bounds"))
        ELSE LET spliced == JsSplice(JsSlice(data, 0, Len(data)),
                                     rowIndex, F.numColumns, <<>>)
             IN  SuccessNew(ConstructFresh(H, spliced, F.numRows - 1, F.numColumns,
                                           Tags_removeRow(F.tags, rowIndex)))

deleteRowAt(H, this, rowIndex) ==
    LET F == H.frames[this]
        data == DataOf(H, this)
    IN  IF rowIndex < 0 \/ rowIndex >= F.numRows
        THEN Returns(H, failureResult("deleteRowAt: index out of bounds"))
        ELSE LET spliced == JsSplice(JsSlice(data, 0, Len(data)),
                                     rowIndex * F.numColumns, F.numColumns, <<>>)
             IN  SuccessNew(ConstructFresh(H, spliced, F.numRows - 1, F.numColumns,
                                           Tags_removeRow(F.tags, rowIndex)))

\* deleteColumnAt that takes the first cell out of every row, whatever the index
deleteColumnAt_SplicesFirstColumn(H, this, columnIndex) ==
    LET F == H.frames[this]
    IN  IF columnIndex < 0 \/ columnIndex >= F.numColumns
        THEN Returns(H, failureResult("deleteColumnAt: index out of bounds"))
        ELSE LET sliced == rowSlices(H, this)
                 rows == [i \in 1 .. Len(sliced) |-> JsSplice(sliced[i], 0, 1, <<>>)]
             IN  SuccessNew(ConstructFresh(H, Flatten(rows), F.numRows, F.numColumns - 1,
                                           Tags_removeColumn(F.tags, columnIndex)))

deleteColumnAt(H, this, columnIndex) ==
    LET F == H.frames[this]
    IN  IF columnIndex < 0 \/ columnIndex >= F.numColumns
        THEN Returns(H, failureResult("deleteColumnAt: index out of bounds"))
        ELSE LET sliced == rowSlices(H, this)
                 rows == [i \in 1 .. Len(sliced) |-> JsSplice(sliced[i], columnIndex, 1, <<>>)]
             IN  SuccessNew(ConstructFresh(H, Flatten(rows), F.numRows, F.numColumns - 1,
                                           Tags_removeColumn(F.tags, columnIndex)))

RECURSIVE MapAt(_, _, _)
\* for each index in turn: data[i] = mapper(data[i])
MapAt(data, indexes, mapper) ==
    IF indexes = <<>> THEN data
    ELSE MapAt(JsSet(data, Head(indexes), Apply(mapper, JsGet(data, Head(indexes)))),
               Tail(indexes), mapper)

\* the indexes rowIndex * numColumns .. (rowIndex + 1) * numColumns - 1
RowIndexes(rowIndex, numColumns) ==
    [k \in 1 .. numColumns |-> rowIndex * numColumns + k - 1]

mapElements(H, this, mapper) ==
    LET F == H.frames[this]
        updatedData == Map(DataOf(H, this), LAMBDA value : Apply(mapper, value))
    IN  New(ConstructFresh(H, updatedData, F.numRows, F.numColumns, Tags_copy(F.tags)))

mapRow(H, this, rowIndex, mapper) ==
    LET F == H.frames[this]
        data == DataOf(H, this)
    IN  IF rowIndex < 0 \/ rowIndex >= F.numRows
        THEN Returns(H, failureResult("mapRow: invalid row index"))
        ELSE LET updated == MapAt(JsSlice(data, 0, Len(data)),
                                  RowIndexes(rowIndex, F.numColumns), mapper)
             IN  SuccessNew(ConstructFresh(H, updated, F.numRows, F.numColumns, Tags_copy(F.tags)))

mapRowInPlace(H, this, rowIndex, mapper) ==
    LET F == H.frames[this]
    IN  IF rowIndex < 0 \/ rowIndex >= F.numRows
        THEN Returns(H, failureResult("mapRowInPlace: invalid row index"))
        ELSE [frames |-> H.frames,
              arrays |-> [H.arrays EXCEPT ![F.data] =
                              MapAt(@, RowIndexes(rowIndex, F.numColumns), mapper)],
              returned |-> successResult(this)]

mapColumn(H, this, columnIndex, mapper) ==
    LET F == H.frames[this]
        data == DataOf(H, this)
    IN  IF columnIndex < 0 \/ columnIndex >= F.numColumns
        THEN Returns(H, failureResult("mapColumn: invalid column index"))
        ELSE LET updated == MapAt(JsSlice(data, 0, Len(data)),
                                  ColumnIndexes(Len(data), columnIndex, F.numColumns), mapper)
             IN  SuccessNew(ConstructFresh(H, updated, F.numRows, F.numColumns, Tags_copy(F.tags)))

\* mapColumnInPlace that walks the storage with a step of 1, as mapRowInPlace does
mapColumnInPlace_MapsRow(H, this, columnIndex, mapper) ==
    LET F == H.frames[this]
    IN  IF columnIndex < 0 \/ columnIndex >= F.numColumns
        THEN Returns(H, failureResult("mapColumnInPlace: invalid column index"))
        ELSE [frames |-> H.frames,
              arrays |-> [H.arrays EXCEPT ![F.data] =
                              MapAt(@, RowIndexes(columnIndex, F.numColumns), mapper)],
              returned |-> successResult(this)]

mapColumnInPlace(H, this, columnIndex, mapper) ==
    LET F == H.frames[this]
    IN  IF columnIndex < 0 \/ columnIndex >= F.numColumns
        THEN Returns(H, failureResult("mapColumnInPlace: invalid column index"))
        ELSE [frames |-> H.frames,
              arrays |-> [H.arrays EXCEPT ![F.data] =
                              MapAt(@, ColumnIndexes(Len(@), columnIndex, F.numColumns), mapper)],
              returned |-> successResult(this)]

\* this.tags = tags; return successResult(this)
SetTags(H, this, tags) ==
    [frames |-> [H.frames EXCEPT ![this].tags = tags],
     arrays |-> H.arrays,
     returned |-> successResult(this)]

\* tagRow that leaves the receiver alone and returns a tagged copy
tagRow_ReturnsCopy(H, this, rowIndex, name, tag) ==
    LET F == H.frames[this]
        data == DataOf(H, this)
    IN  IF rowIndex < 0 \/ rowIndex >= F.numRows
        THEN Returns(H, failureResult("tagRow: row index out of bounds"))
        ELSE SuccessNew(ConstructFresh(H, JsSlice(data, 0, Len(data)), F.numRows, F.numColumns,
                 Tags_addOrReplace(F.tags, newRowTag(name, tag, RowCoordinate(rowIndex)))))

\* tagRow that accepts every row index
tagRow_Unchecked(H, this, rowIndex, name, tag) ==
    SetTags(H, this,
        Tags_addOrReplace(H.frames[this].tags, newRowTag(name, tag, RowCoordinate(rowIndex))))

tagRow(H, this, rowIndex, name, tag) ==
    LET F == H.frames[this]
    IN  IF rowIndex < 0 \/ rowIndex >= F.numRows
        THEN Returns(H, failureResult("tagRow: row index out of bounds"))
        ELSE SetTags(H, this,
                 Tags_addOrReplace(F.tags, newRowTag(name, tag, RowCoordinate(rowIndex))))

tagColumn(H, this, columnIndex, name, tag) ==
    LET F == H.frames[this]
    IN  IF columnIndex < 0 \/ columnIndex >= F.numColumns
        THEN Returns(H, failureResult("tagColumn: column index out of bounds"))
        ELSE SetTags(H, this,
                 Tags_addOrReplace(F.tags, newColumnTag(name, tag, ColumnCoordinate(columnIndex))))

\* tagCell that tests the row index alone
tagCell_IgnoresColumnIndex(H, this, rowIndex, columnIndex, name, tag) ==
    LET F == H.frames[this]
    IN  IF rowIndex < 0 \/ rowIndex >= F.numRows
        THEN Returns(H, failureResult("tagCell: row index out of bounds"))
        ELSE SetTags(H, this,
                 Tags_addOrReplace(F.tags,
                                   newCellTag(name, tag, CellCoordinate(rowIndex, columnIndex))))

tagCell(H, this, rowIndex, columnIndex, name, tag) ==
    LET F == H.frames[this]
    IN  IF rowIndex < 0 \/ rowIndex >= F.numRows
        THEN Returns(H, failureResult("tagCell: row index out of bounds"))
        ELSE IF columnIndex < 0 \/ columnIndex >= F.numColumns
        THEN Returns(H, failureResult("tagCell: column index out of bounds"))
        ELSE SetTags(H, this,
                 Tags_addOrReplace(F.tags,
                                   newCellTag(name, tag, CellCoordinate(rowIndex, columnIndex))))

filterTags(H, this, predicate(_)) == Tags_filter(H.frames[this].tags, predicate)

rowTagsFor(H, this, rowIndex) ==
    Tags_filter(H.frames[this].tags,
                LAMBDA tag : isRowTag(tag) /\ JsEq(coordinate(tag.coordinate)[1], rowIndex))

columnTagsFor(H, this, columnIndex) ==
    Tags_filter(H.frames[this].tags,
                LAMBDA tag : isColumnTag(tag) /\ JsEq(coordinate(tag.coordinate)[2], columnIndex))

cellTagsFor(H, this, rowIndex, columnIndex) ==
    Tags_filter(H.frames[this].tags,
                LAMBDA tag : /\ isCellTag(tag)
                             /\ JsEq(coordinate(tag.coordinate)[1], rowIndex)
                             /\ JsEq(coordinate(tag.coordinate)[2], columnIndex))

tagsFor(H, this, rowIndex, columnIndex) ==
    LET F == H.frames[this]
    IN  IF \/ rowIndex < 0 \/ rowIndex >= F.numRows
           \/ columnIndex < 0 \/ columnIndex >= F.numColumns
        THEN <<>>
        ELSE Tags_tagsFor(F.tags, rowIndex, columnIndex)

hasRowTagFor(H, this, rowIndex) == Len(rowTagsFor(H, this, rowIndex)) > 0

hasColumnTagFor(H, this, columnIndex) == Len(columnTagsFor(H, this, columnIndex)) > 0

hasCellTagFor(H, this, rowIndex, columnIndex) ==
    Len(cellTagsFor(H, this, rowIndex, columnIndex)) > 0

hasTagFor(H, this, rowIndex, columnIndex) == Len(tagsFor(H, this, rowIndex, columnIndex)) > 0

CellValue(value, row, column) == [value |-> value, row |-> row, column |-> column]

cellsTaggedWith(H, this, tag) ==
    LET F == H.frames[this]
        row == coordinate(tag.coordinate)[1]
        column == coordinate(tag.coordinate)[2]
    IN  IF JsLt(row, 0) \/ JsGe(row, F.numRows)
        THEN failureResult("cellsTaggedWith: invalid row index")
        ELSE IF JsLt(column, 0) \/ JsGe(column, F.numColumns)
        THEN failureResult("cellsTaggedWith: invalid column index")
        ELSE IF isRowTag(tag)
        THEN IF Some(rowTagsFor(H, this, row), LAMBDA tg : TagEquals(tg, tag))
             THEN LET r == rowSlice(H, this, row)
                  IN  IF r.status # "success" THEN r
                      ELSE successResult([i \in 1 .. Len(r.val) |->
                                              CellValue(r.val[i], row, i - 1)])
             ELSE successResult(<<>>)
        ELSE IF isColumnTag(tag)
        THEN IF Some(columnTagsFor(H, this, column), LAMBDA tg : TagEquals(tg, tag))
             THEN LET r == columnSlice(H, this, column)
                  IN  IF r.status # "success" THEN r
                      ELSE successResult([i \in 1 .. Len(r.val) |->
                                              CellValue(r.val[i], i - 1, column)])
             ELSE successResult(<<>>)
        ELSE IF Some(cellTagsFor(H, this, row, column), LAMBDA tg : TagEquals(tg, tag))
             THEN LET r == elementAt(H, this, row, column)
                  IN  IF r.status # "success" THEN r
                      ELSE successResult(<<CellValue(r.val, row, column)>>)
             ELSE successResult(<<>>)

(***************************************************************************)
(* The scenarios.  A scenario builds one table with a factory, or works on *)
(* one free-standing Tags collection.  A call is made on the table held;   *)
(* its receiver, arguments and result are recorded in `last`, the heap and *)
(* the collection before the call in `pre`.  The caller then goes on with  *)
(* the receiver or with the table returned, and drops the other.           *)
(*                                                                         *)
(* An "edit" scenario builds its table from any data and goes on after     *)
(* every call, with at most MaxEditTags tags on the table.  A "tag"        *)
(* scenario builds a sample table, tags it with up to MaxTags tags and     *)
(* makes one more call.  An "alias" scenario does the same with at most    *)
(* MaxEditTags tags, and when that call has handed back a second table it  *)
(* makes one in-place call on either of the two.  A "tall" scenario builds *)
(* a table of TallRows rows and takes one selection of it with subFrame.   *)
(***************************************************************************)
Heap == [frames |-> frames, arrays |-> arrays]

NoAfter == [op |-> "none", this |-> 0, args |-> <<>>, ret |-> Value(0)]

NoCall == [op |-> "none", this |-> 0, args |-> <<>>, ret |-> Value(0), after |-> NoAfter]

Blank == [frames |-> EmptyHeap.frames, arrays |-> EmptyHeap.arrays, coll |-> <<>>]

Idle == last.op = "none"

NoTable == \A f \in FrameIds : ~Live(Heap, f)

\* the tables the caller holds a reference to
Held == {f \in FrameIds : Live(Heap, f)}

Factories == {"from", "fromColumnData", "empty"}

Tagging == {"tagRow", "tagColumn", "tagCell"}

InPlace == Tagging \cup {"setElementInPlaceAt", "mapRowInPlace", "mapColumnInPlace"}

\* the methods that hand back a new table and leave the receiver alone
Persistent ==
    {"setElementAt", "insertRowBefore", "pushRow", "insertColumnBefore", "pushColumn",
     "deleteRowAt", "deleteColumnAt", "transpose", "subFrame", "mapElements", "mapRow",
     "mapColumn"}

TagsMethods == {"Tags.with", "Tags.add", "Tags.replace", "Tags.addOrReplace", "Tags.remove"}

\* the sequences over S of the lengths lo .. hi
SeqsOf(S, lo, hi) == UNION {[1 .. n -> S] : n \in lo .. hi}

RowInputs == SeqsOf(CellValues, 0, MaxCols)

DataInputs == SeqsOf(RowInputs, 0, MaxRows)

\* the data of the sample tables: one row of two cells, and two rows of two cells
SampleData == {<<<<"c0", "c1">>>>, <<<<"c0", "c1">>, <<"c0", "c0">>>>}

\* the data of the tall tables: TallRows rows of one length
TallData == UNION {[1 .. TallRows -> [1 .. n -> CellValues]] : n \in 1 .. MaxCols}

FactoryData ==
    CASE scenario = "edit" -> DataInputs
      [] scenario = "tall" -> TallData
      [] OTHER -> SampleData

\* the number of rows of the tables a scenario makes calls on
RowCap == IF scenario = "tall" THEN TallRows ELSE MaxRows

\* the rows and columns inserted and pushed
NewCells == {<<>>, <<"c0">>, <<"c1">>, <<"c0", "c1">>}

\* the cells addressed: every cell within the bounds, and one past each edge
CellIdx ==
    ((0 .. (MaxRows - 1)) \X (0 .. (MaxCols - 1)))
        \cup {<<-1, 0>>, <<0, -1>>, <<MaxRows, 0>>, <<0, MaxCols>>}

Index(row, column) == [row |-> row, column |-> column]

\* the corners subFrame is called with
Corners ==
    {Index(r, c) : r \in 0 .. (RowCap - 1), c \in 0 .. (MaxCols - 1)}
        \cup {Index(-1, 0), Index(0, MaxCols)}

CoordinateInputs ==
    {RowCoordinate(r) : r \in RowIdx} \cup {ColumnCoordinate(c) : c \in ColIdx}
        \cup {CellCoordinate(i[1], i[2]) : i \in CellIdx}

TagInputs ==
    {newTag(name, value, coord) : name \in TagNames, value \in TagValues,
                                  coord \in CoordinateInputs}

\* the names and coordinates of the tags a free-standing collection is given
CollNames == {"n", "m"}

CollCoordinates == {RowCoordinate(0), ColumnCoordinate(0), CellCoordinate(0, 0)}

CollInputs ==
    {newTag(name, value, coord) : name \in CollNames, value \in TagValues,
                                  coord \in CollCoordinates}

\* the argument lists of Tags.with
WithInputs ==
    SeqsOf({newTag("n", value, coord) : value \in TagValues,
                coord \in {RowCoordinate(0), CellCoordinate(0, 0)}}, 0, MaxTags + 1)

IdInputs == {TagId(tag) : tag \in CollInputs} \cup {"tag-none"}

\* the number of tags a scenario puts on a table
TagCap == IF scenario = "tag" THEN MaxTags ELSE MaxEditTags

\* a table the scenario still makes calls on: within the bounds of the model
Bounded(this) ==
    /\ frames[this].numRows <= RowCap
    /\ frames[this].numColumns <= MaxCols
    /\ Len(frames[this].tags) <= MaxTags
    /\ Len(arrays[frames[this].data]) <= RowCap * MaxCols

\* there is room for one more tag, or the tag replaces one
RoomForTag(this, name, coord) ==
    Len(frames[this].tags) < TagCap \/ Tags_hasTagFor(frames[this].tags, name, coord)

\* the one in-place call of an alias scenario on either of the two tables held
FollowUp ==
    /\ scenario = "alias"
    /\ ~Idle
    /\ last.after.op = "none"
    /\ Cardinality(Held) = 2

\* an in-place call is made when no call is being looked at, or as a follow-up
Ready == Idle \/ FollowUp

\* a call of a method on a table, or of a factory: R is what the method hands back
Invoke(op, this, args, R) ==
    /\ Idle \/ (FollowUp /\ op \in InPlace)
    /\ this # 0 => Bounded(this)
    /\ frames' = R.frames
    /\ arrays' = R.arrays
    /\ last' = [op |-> op, this |-> this, args |-> args, ret |-> R.returned,
                after |-> [op |-> last.op, this |-> last.this, args |-> last.args,
                           ret |-> last.ret]]
    /\ pre' = [frames |-> frames, arrays |-> arrays, coll |-> coll]
    /\ UNCHANGED <<coll, scenario>>

\* a call of a method that only reads the table
Query(op, this, args, result) == Invoke(op, this, args, Returns(Heap, result))

\* a call of a factory
Create(op, args, R) ==
    /\ NoTable
    /\ coll = <<>>
    /\ Invoke(op, 0, args, R)

\* a call of a method of the free-standing Tags collection
InvokeTags(op, args, R) ==
    /\ Idle
    /\ NoTable
    /\ scenario = "tag"
    /\ Len(coll) <= MaxTags
    /\ Tags_result(R).status = "success" => Len(Tags_result(R).val) <= MaxTags + 1
    /\ coll' = R.arrays[1]
    /\ last' = [NoCall EXCEPT !.op = op, !.args = args, !.ret = Tags_result(R)]
    /\ pre' = [frames |-> frames, arrays |-> arrays, coll |-> coll]
    /\ UNCHANGED <<frames, arrays, scenario>>

(***************************************************************************)
(* The factories, called by a scenario that holds nothing yet.             *)
(***************************************************************************)
Call_from ==
    /\ Idle /\ NoTable
    /\ \E data \in FactoryData, rowForm \in BOOLEAN :
           Create("from", <<data, rowForm>>, from(Heap, data, rowForm))

Call_fromColumnData ==
    /\ Idle /\ NoTable
    /\ \E data \in FactoryData : Create("fromColumnData", <<data>>, fromColumnData(Heap, data))

Call_empty ==
    /\ Idle /\ NoTable
    /\ Create("empty", <<>>, empty(Heap))

(***************************************************************************)
(* The methods of a table.                                                 *)
(***************************************************************************)
Call_rowCount ==
    /\ Idle
    /\ \E this \in Held : Query("rowCount", this, <<>>, Value(rowCount(Heap, this)))

Call_columnCount ==
    /\ Idle
    /\ \E this \in Held : Query("columnCount", this, <<>>, Value(columnCount(Heap, this)))

Call_isEmpty ==
    /\ Idle
    /\ \E this \in Held : Query("isEmpty", this, <<>>, Value(isEmpty(Heap, this)))

Call_copy ==
    /\ Idle
    /\ \E this \in Held : Invoke("copy", this, <<>>, copy(Heap, this))

\* this.equals(other) on the tables the caller holds: the one table of a scenario with
\* itself, or the receiver and the result of the call just made, either way round
Call_equals ==
    /\ last.after.op = "none"
    /\ last.op \in Persistent \cup {"copy", "none"}
    /\ \E this \in Held, other \in Held :
           /\ Bounded(this)
           /\ Bounded(other)
           /\ last' = [op |-> "equals", this |-> this, args |-> <<other>>,
                       ret |-> Value(equals(Heap, this, other)),
                       after |-> [op |-> last.op, this |-> last.this, args |-> last.args,
                                  ret |-> last.ret]]
           /\ pre' = [frames |-> frames, arrays |-> arrays, coll |-> coll]
           /\ UNCHANGED <<frames, arrays, coll, scenario>>

Call_transpose ==
    /\ Idle
    /\ \E this \in Held :
           /\ frames[this].numRows <= MaxCols
           /\ frames[this].numColumns <= MaxRows
           /\ Invoke("transpose", this, <<>>, transpose(Heap, this))

Call_rowSlice ==
    /\ Idle
    /\ \E this \in Held, rowIndex \in RowIdx :
           Query("rowSlice", this, <<rowIndex>>, rowSlice(Heap, this, rowIndex))

Call_rowSlices ==
    /\ Idle
    /\ \E this \in Held : Query("rowSlices", this, <<>>, Value(rowSlices(Heap, this)))

Call_columnSlice ==
    /\ Idle
    /\ \E this \in Held, columnIndex \in ColIdx :
           Query("columnSlice", this, <<columnIndex>>, columnSlice(Heap, this, columnIndex))

Call_columnSlices ==
    /\ Idle
    /\ \E this \in Held : Query("columnSlices", this, <<>>, Value(columnSlices(Heap, this)))

Call_elementAt ==
    /\ Idle
    /\ \E this \in Held, i \in CellIdx :
           Query("elementAt", this, <<i[1], i[2]>>, elementAt(Heap, this, i[1], i[2]))

Call_subFrame ==
    /\ Idle
    /\ \E this \in Held, start \in Corners, end \in Corners :
           Invoke("subFrame", this, <<start, end>>, subFrame(Heap, this, start, end))

Call_setElementAt ==
    /\ Idle
    /\ \E this \in Held, i \in CellIdx, value \in CellValues :
           Invoke("setElementAt", this, <<i[1], i[2], value>>,
                  setElementAt(Heap, this, i[1], i[2], value))

Call_setElementInPlaceAt ==
    /\ Ready
    /\ \E this \in Held, i \in CellIdx, value \in CellValues :
           Invoke("setElementInPlaceAt", this, <<i[1], i[2], value>>,
                  setElementInPlaceAt(Heap, this, i[1], i[2], value))

Call_insertRowBefore ==
    /\ Idle
    /\ \E this \in Held, rowIndex \in RowIdx, row \in NewCells :
           /\ frames[this].numRows < MaxRows
           /\ Invoke("insertRowBefore", this, <<rowIndex, row>>,
                     insertRowBefore(Heap, this, rowIndex, row))

Call_pushRow ==
    /\ Idle
    /\ \E this \in Held, row \in NewCells :
           /\ frames[this].numRows < MaxRows
           /\ Invoke("pushRow", this, <<row>>, pushRow(Heap, this, row))

Call_insertColumnBefore ==
    /\ Idle
    /\ \E this \in Held, columnIndex \in ColIdx, column \in NewCells :
           /\ frames[this].numColumns < MaxCols
           /\ Invoke("insertColumnBefore", this, <<columnIndex, column>>,
                     insertColumnBefore(Heap, this, columnIndex, column))

Call_pushColumn ==
    /\ Idle
    /\ \E this \in Held, column \in NewCells :
           /\ frames[this].numColumns < MaxCols
           /\ Invoke("pushColumn", this, <<column>>, pushColumn(Heap, this, column))

Call_deleteRowAt ==
    /\ Idle
    /\ \E this \in Held, rowIndex \in RowIdx :
           Invoke("deleteRowAt", this, <<rowIndex>>, deleteRowAt(Heap, this, rowIndex))

Call_deleteColumnAt ==
    /\ Idle
    /\ \E this \in Held, columnIndex \in ColIdx :
           Invoke("deleteColumnAt", this, <<columnIndex>>, deleteColumnAt(Heap, this, columnIndex))

Call_mapElements ==
    /\ Idle
    /\ \E this \in Held, mapper \in Mappers :
           Invoke("mapElements", this, <<mapper>>, mapElements(Heap, this, mapper))

Call_mapRow ==
    /\ Idle
    /\ \E this \in Held, rowIndex \in RowIdx, mapper \in Mappers :
           Invoke("mapRow", this, <<rowIndex, mapper>>, mapRow(Heap, this, rowIndex, mapper))

Call_mapRowInPlace ==
    /\ Ready
    /\ \E this \in Held, rowIndex \in RowIdx, mapper \in Mappers :
           Invoke("mapRowInPlace", this, <<rowIndex, mapper>>,
                  mapRowInPlace(Heap, this, rowIndex, mapper))

Call_mapColumn ==
    /\ Idle
    /\ \E this \in Held, columnIndex \in ColIdx, mapper \in Mappers :
           Invoke("mapColumn", this, <<columnIndex, mapper>>,
                  mapColumn(Heap, this, columnIndex, mapper))

Call_mapColumnInPlace ==
    /\ Ready
    /\ \E this \in Held, columnIndex \in ColIdx, mapper \in Mappers :
           Invoke("mapColumnInPlace", this, <<columnIndex, mapper>>,
                  mapColumnInPlace(Heap, this, columnIndex, mapper))

Call_tagRow ==
    /\ Ready
    /\ \E this \in Held, rowIndex \in RowIdx, name \in TagNames, tag \in TagValues :
           /\ RoomForTag(this, name, RowCoordinate(rowIndex))
           /\ Invoke("tagRow", this, <<rowIndex, name, tag>>,
                     tagRow(Heap, this, rowIndex, name, tag))

Call_tagColumn ==
    /\ Ready
    /\ \E this \in Held, columnIndex \in ColIdx, name \in TagNames, tag \in TagValues :
           /\ RoomForTag(this, name, ColumnCoordinate(columnIndex))
           /\ Invoke("tagColumn", this, <<columnIndex, name, tag>>,
                     tagColumn(Heap, this, columnIndex, name, tag))

Call_tagCell ==
    /\ Ready
    /\ \E this \in Held, i \in CellIdx, name \in TagNames, tag \in TagValues :
           /\ RoomForTag(this, name, CellCoordinate(i[1], i[2]))
           /\ Invoke("tagCell", this, <<i[1], i[2], name, tag>>,
                     tagCell(Heap, this, i[1], i[2], name, tag))

Call_rowTagsFor ==
    /\ Idle
    /\ \E this \in Held, rowIndex \in RowIdx :
           Query("rowTagsFor", this, <<rowIndex>>, Value(rowTagsFor(Heap, this, rowIndex)))

Call_columnTagsFor ==
    /\ Idle
    /\ \E this \in Held, columnIndex \in ColIdx :
           Query("columnTagsFor", this, <<columnIndex>>,
                 Value(columnTagsFor(Heap, this, columnIndex)))

Call_cellTagsFor ==
    /\ Idle
    /\ \E this \in Held, i \in CellIdx :
           Query("cellTagsFor", this, <<i[1], i[2]>>, Value(cellTagsFor(Heap, this, i[1], i[2])))

Call_tagsFor ==
    /\ Idle
    /\ \E this \in Held, i \in CellIdx :
           Query("tagsFor", this, <<i[1], i[2]>>, Value(tagsFor(Heap, this, i[1], i[2])))

Call_hasRowTagFor ==
    /\ Idle
    /\ \E this \in Held, rowIndex \in RowIdx :
           Query("hasRowTagFor", this, <<rowIndex>>, Value(hasRowTagFor(Heap, this, rowIndex)))

Call_hasColumnTagFor ==
    /\ Idle
    /\ \E this \in Held, columnIndex \in ColIdx :
           Query("hasColumnTagFor", this, <<columnIndex>>,
                 Value(hasColumnTagFor(Heap, this, columnIndex)))

Call_hasCellTagFor ==
    /\ Idle
    /\ \E this \in Held, i \in CellIdx :
           Query("hasCellTagFor", this, <<i[1], i[2]>>,
                 Value(hasCellTagFor(Heap, this, i[1], i[2])))

Call_hasTagFor ==
    /\ Idle
    /\ \E this \in Held, i \in CellIdx :
           Query("hasTagFor", this, <<i[1], i[2]>>, Value(hasTagFor(Heap, this, i[1], i[2])))

Call_cellsTaggedWith ==
    /\ Idle
    /\ \E this \in Held, tag \in TagInputs :
           Query("cellsTaggedWith", this, <<tag>>, cellsTaggedWith(Heap, this, tag))

(***************************************************************************)
(* The methods of a free-standing Tags collection.                         *)
(***************************************************************************)
Call_Tags_with ==
    /\ Idle /\ NoTable
    /\ \E tag \in WithInputs :
           InvokeTags("Tags.with", <<tag>>,
                      [arrays |-> <<coll, Tags_with(tag)>>, returned |-> successResult(2)])

Call_Tags_add ==
    /\ Idle /\ NoTable
    /\ \E tag \in CollInputs : InvokeTags("Tags.add", <<tag>>, Tags_addOn(<<coll>>, 1, tag))

Call_Tags_replace ==
    /\ Idle /\ NoTable
    /\ \E tag \in CollInputs : InvokeTags("Tags.replace", <<tag>>, Tags_replaceOn(<<coll>>, 1, tag))

Call_Tags_addOrReplace ==
    /\ Idle /\ NoTable
    /\ \E tag \in CollInputs :
           InvokeTags("Tags.addOrReplace", <<tag>>, Tags_addOrReplaceOn(<<coll>>, 1, tag))

Call_Tags_remove ==
    /\ Idle /\ NoTable
    /\ \E id \in IdInputs : InvokeTags("Tags.remove", <<id>>, Tags_removeOn(<<coll>>, 1, id))



(***************************************************************************)
(* The caller goes on with table k and drops the other; a scenario on a    *)
(* Tags collection goes on with the collection.                            *)
(***************************************************************************)
Continue ==
    /\ ~Idle
    /\ last.after.op = "none"
    /\ last.ret.status # "hang"
    /\ scenario = "edit" \/ last.op \in Factories \cup Tagging \cup TagsMethods
    /\ \E k \in (IF NoTable THEN {0} ELSE Held) :
          /\ frames' = [f \in FrameIds |->
                            IF k # 0 /\ f = 1 THEN [frames[k] EXCEPT !.data = 1] ELSE NoFrame]
          /\ arrays' = [a \in ArrIds |->
                            IF k # 0 /\ a = 1 THEN arrays[frames[k].data] ELSE <<>>]
    /\ coll' = IF last.op \in TagsMethods /\ last.ret.status = "success"
               THEN last.ret.val ELSE coll
    /\ last' = NoCall
    /\ pre' = Blank
    /\ UNCHANGED scenario

TableCalls ==
    \/ Call_from \/ Call_fromColumnData \/ Call_empty
    \/ Call_rowCount \/ Call_columnCount \/ Call_isEmpty
    \/ Call_copy \/ Call_equals \/ Call_transpose
    \/ Call_rowSlice \/ Call_rowSlices \/ Call_columnSlice \/ Call_columnSlices
    \/ Call_elementAt \/ Call_subFrame
    \/ Call_setElementAt \/ Call_setElementInPlaceAt
    \/ Call_insertRowBefore \/ Call_pushRow \/ Call_insertColumnBefore \/ Call_pushColumn
    \/ Call_deleteRowAt \/ Call_deleteColumnAt
    \/ Call_mapElements \/ Call_mapRow \/ Call_mapRowInPlace
    \/ Call_mapColumn \/ Call_mapColumnInPlace
    \/ Call_tagRow \/ Call_tagColumn \/ Call_tagCell
    \/ Call_rowTagsFor \/ Call_columnTagsFor \/ Call_cellTagsFor \/ Call_tagsFor
    \/ Call_hasRowTagFor \/ Call_hasColumnTagFor \/ Call_hasCellTagFor \/ Call_hasTagFor
    \/ Call_cellsTaggedWith

TagsCalls ==
    \/ Call_Tags_with \/ Call_Tags_add \/ Call_Tags_replace
    \/ Call_Tags_addOrReplace \/ Call_Tags_remove

Start ==
    /\ frames = EmptyHeap.frames
    /\ arrays = EmptyHeap.arrays
    /\ coll = <<>>
    /\ last = NoCall
    /\ pre = Blank

Init == Start /\ scenario \in {"edit", "tag"}

Next == TableCalls \/ TagsCalls \/ Continue

Spec == Init /\ [][Next]_vars

InitAlias == Start /\ scenario = "alias"

NextAlias == TableCalls \/ Continue

SpecAlias == InitAlias /\ [][NextAlias]_vars

InitTall == Start /\ scenario = "tall"

NextTall == Call_from \/ Call_subFrame \/ Continue

SpecTall == InitTall /\ [][NextTall]_vars

(***************************************************************************)
(* What the claims observe of a table.                                     *)
(***************************************************************************)
\* the table as the caller can observe it: its dimensions, its storage and its tags
Table(H, f) ==
    [numRows |-> H.frames[f].numRows, numColumns |-> H.frames[f].numColumns,
     data |-> DataOf(H, f), tags |-> H.frames[f].tags]

\* storage[row * columns + column]
CellOf(H, f, row, column) == JsGet(DataOf(H, f), row * H.frames[f].numColumns + column)

InRange(H, f, row, column) ==
    /\ row >= 0 /\ row < H.frames[f].numRows
    /\ column >= 0 /\ column < H.frames[f].numColumns

\* the heap before the last call
Before == [frames |-> pre.frames, arrays |-> pre.arrays]

Succeeded == last.ret.status = "success"

Failed == last.ret.status = "failure"

\* the last call handed back a table that did not exist before it
ReturnedNew ==
    /\ last.ret.status \in {"success", "value"}
    /\ last.ret.val \in FrameIds
    /\ ~Live(Before, last.ret.val)

\* no two tags of the collection have the same name and an equal coordinate
Unique(tags) ==
    \A i, j \in 1 .. Len(tags) :
        i # j => ~SameKey(tags[i], tags[j].name, tags[j].coordinate)

(***************************************************************************)
(* C1.  Shape invariant: every table built by a factory and the calls that *)
(* follow has a rowCount and a columnCount of at least 0 and a storage     *)
(* array of exactly rowCount * columnCount elements.  The code does not    *)
(* keep it: setElementAt and setElementInPlaceAt accept the column index   *)
(* columnCount, which on the last row is one past the end of the storage.  *)
(***************************************************************************)
C1_ShapeInvariant ==
    \A f \in Held :
        /\ rowCount(Heap, f) >= 0
        /\ columnCount(Heap, f) >= 0
        /\ Len(DataOf(Heap, f)) = rowCount(Heap, f) * columnCount(Heap, f)

(***************************************************************************)
(* C2.  Tag uniqueness: after any sequence of Tags.with, add, replace,     *)
(* addOrReplace and remove on a collection, and after any sequence of      *)
(* tagging and structural calls on a table, no collection holds two tags   *)
(* with the same name and an equal coordinate.                             *)
(***************************************************************************)
C2_TagUniqueness ==
    /\ Unique(coll)
    /\ \A f \in Held : Unique(frames[f].tags)

\* a tagging call has replaced one of the two tags of a table
C2_Witness ==
    /\ last.op \in Tagging
    /\ Succeeded
    /\ Len(Before.frames[last.this].tags) = 2
    /\ Len(frames[last.this].tags) = 2
    /\ frames[last.this].tags # Before.frames[last.this].tags

(***************************************************************************)
(* C3.  Transpose involution: the transpose of the table that transpose    *)
(* has returned has the receiver's rowCount and columnCount, the           *)
(* receiver's value in every cell and exactly the receiver's set of tags.  *)
(***************************************************************************)
C3_TransposeInvolution ==
    last.op = "transpose" =>
        LET t == last.this
            R == transpose(Heap, last.ret.val)
            tt == R.returned.val
        IN  /\ rowCount(R, tt) = rowCount(Before, t)
            /\ columnCount(R, tt) = columnCount(Before, t)
            /\ \A row \in 0 .. (rowCount(Before, t) - 1),
                  column \in 0 .. (columnCount(Before, t) - 1) :
                    CellOf(R, tt, row, column) = CellOf(Before, t, row, column)
            /\ Range(R.frames[tt].tags) = Range(Before.frames[t].tags)

\* a table of two rows that is not its own transpose, with a tag on row 1 and on a cell
C3_Witness ==
    /\ last.op = "transpose"
    /\ rowCount(Before, last.this) = 2
    /\ columnCount(Before, last.this) = 2
    /\ DataOf(Heap, last.ret.val) # DataOf(Before, last.this)
    /\ \E i, j \in 1 .. Len(Before.frames[last.this].tags) :
          /\ Before.frames[last.this].tags[i].coordinate = RowCoordinate(1)
          /\ Before.frames[last.this].tags[j].coordinate = CellCoordinate(0, 1)

(***************************************************************************)
(* C4.  Copy independence: the table copy returns has the dimensions, the  *)
(* cell values and the tags of the receiver, and an in-place call made     *)
(* afterwards on the copy or on the receiver (setElementInPlaceAt,         *)
(* mapRowInPlace, mapColumnInPlace, tagRow, tagColumn, tagCell) changes no *)
(* cell value and no tag of the other table.                               *)
(***************************************************************************)
C4_CopyIndependence ==
    /\ last.op = "copy" =>
          /\ ReturnedNew
          /\ Table(Heap, last.ret.val) = Table(Before, last.this)
    /\ (last.after.op = "copy" /\ last.op \in InPlace) =>
          \A g \in Held \ {last.this} : Table(Heap, g) = Table(Before, g)

\* a cell of the copy has been overwritten in place with another value
C4_Witness ==
    /\ last.after.op = "copy"
    /\ last.op = "setElementInPlaceAt"
    /\ last.this = last.after.ret.val
    /\ Succeeded
    /\ DataOf(Heap, last.this) # DataOf(Before, last.this)

(***************************************************************************)
(* C5.  Row deletion keeps data and tags anchored: for 0 <= r < rowCount,  *)
(* deleteRowAt(r) succeeds with a table of rowCount - 1 rows and the same  *)
(* columnCount, in which the original row i is at index i when i < r and   *)
(* at index i - 1 when i > r, its cell values unchanged; the row tags and  *)
(* cell tags bound to row r are gone, those bound to a row i > r are bound *)
(* to row i - 1, and the tags of the rows before r and all column tags are *)
(* what they were.                                                         *)
(***************************************************************************)
C5_DeleteRowAnchored ==
    (/\ last.op = "deleteRowAt"
     /\ last.args[1] >= 0
     /\ last.args[1] < rowCount(Before, last.this)) =>
        LET t == last.this
            r == last.args[1]
            d == last.ret.val
            old == Range(Before.frames[t].tags)
            boundTo(tag, i) == ~isColumnTag(tag) /\ tag.coordinate.row = i
            moved(tag) ==
                IF isColumnTag(tag) \/ tag.coordinate.row < r THEN tag
                ELSE [tag EXCEPT !.coordinate.row = @ - 1]
        IN  /\ Succeeded
            /\ ReturnedNew
            /\ rowCount(Heap, d) = rowCount(Before, t) - 1
            /\ columnCount(Heap, d) = columnCount(Before, t)
            /\ \A i \in 0 .. (rowCount(Before, t) - 1),
                  j \in 0 .. (columnCount(Before, t) - 1) :
                    i # r => CellOf(Heap, d, IF i < r THEN i ELSE i - 1, j)
                                 = CellOf(Before, t, i, j)
            /\ Range(frames[d].tags) = {moved(tag) : tag \in {x \in old : ~boundTo(x, r)}}
            /\ Len(frames[d].tags) = Cardinality({x \in old : ~boundTo(x, r)})

\* row 0 of a table of two unlike rows is deleted: a tag of row 0 goes, a tag of row 1 moves
C5_Witness ==
    /\ last.op = "deleteRowAt"
    /\ last.args[1] = 0
    /\ Succeeded
    /\ rowCount(Before, last.this) = 2
    /\ columnCount(Before, last.this) = 2
    /\ CellOf(Before, last.this, 0, 1) # CellOf(Before, last.this, 1, 1)
    /\ \E i, j \in 1 .. Len(Before.frames[last.this].tags) :
          /\ Before.frames[last.this].tags[i].coordinate.row = 0
          /\ Before.frames[last.this].tags[j].coordinate.row = 1

(***************************************************************************)
(* C6.  Axis-matching completeness: for a cell (i, j) within the table,    *)
(* tagsFor(i, j) returns exactly the union of rowTagsFor(i),               *)
(* columnTagsFor(j) and cellTagsFor(i, j): a row tag iff its row is i, a   *)
(* column tag iff its column is j, a cell tag iff its row is i and its     *)
(* column is j, and nothing else.                                          *)
(***************************************************************************)
C6_AxisMatching ==
    (last.op = "tagsFor" /\ InRange(Before, last.this, last.args[1], last.args[2])) =>
        LET t == last.this
            i == last.args[1]
            j == last.args[2]
            got == Range(last.ret.val)
        IN  /\ got = Range(rowTagsFor(Heap, t, i)) \cup Range(columnTagsFor(Heap, t, j))
                        \cup Range(cellTagsFor(Heap, t, i, j))
            /\ got \subseteq Range(frames[t].tags)
            /\ Len(last.ret.val) = Cardinality(got)
            /\ \A tag \in Range(frames[t].tags) :
                  tag \in got <=>
                      CASE isRowTag(tag) -> tag.coordinate.row = i
                        [] isColumnTag(tag) -> tag.coordinate.column = j
                        [] OTHER -> tag.coordinate.row = i /\ tag.coordinate.column = j

\* the cell is in a tagged column and in a row other than the tagged row
C6_Witness ==
    /\ last.op = "tagsFor"
    /\ InRange(Before, last.this, last.args[1], last.args[2])
    /\ Len(frames[last.this].tags) = 2
    /\ Len(last.ret.val) = 1
    /\ isColumnTag(last.ret.val[1])
    /\ \E k \in 1 .. 2 : isRowTag(frames[last.this].tags[k])

(***************************************************************************)
(* C7.  Persistent operations do not touch the receiver: after             *)
(* setElementAt, insertRowBefore, pushRow, insertColumnBefore, pushColumn, *)
(* deleteRowAt, deleteColumnAt, transpose, subFrame, mapElements, mapRow   *)
(* or mapColumn, successful or failed, the receiver has the dimensions,    *)
(* the cell values and the tags it had before the call, and an in-place    *)
(* call made afterwards on the returned table leaves the receiver as it    *)
(* was.                                                                    *)
(***************************************************************************)
C7_PersistentReceiver ==
    /\ last.op \in Persistent =>
          /\ Table(Heap, last.this) = Table(Before, last.this)
          /\ last.ret.status \in {"success", "value"} =>
                 ReturnedNew /\ last.ret.val # last.this
    /\ (last.after.op \in Persistent /\ last.op \in InPlace
            /\ last.this = last.after.ret.val) =>
          Table(Heap, last.after.this) = Table(Before, last.after.this)

\* a cell of the table setElementAt returned has been overwritten in place
C7_Witness ==
    /\ last.after.op = "setElementAt"
    /\ last.op = "setElementInPlaceAt"
    /\ last.this = last.after.ret.val
    /\ Succeeded
    /\ DataOf(Heap, last.this) # DataOf(Before, last.this)
    /\ DataOf(Heap, last.this) # DataOf(Heap, last.after.this)

C9_ReadBoundsChecked ==
    LET t == last.this
        rows == rowCount(Before, t)
        columns == columnCount(Before, t)
    IN  /\ last.op = "elementAt" =>
              IF InRange(Before, t, last.args[1], last.args[2])
              THEN last.ret = successResult(
                       JsGet(DataOf(Before, t), last.args[1] * columns + last.args[2]))
              ELSE Failed
        /\ last.op = "rowSlice" =>
              IF last.args[1] >= 0 /\ last.args[1] < rows
              THEN last.ret = successResult(
                       [j \in 1 .. columns |-> CellOf(Before, t, last.args[1], j - 1)])
              ELSE Failed
        /\ last.op = "columnSlice" =>
              IF last.args[1] >= 0 /\ last.args[1] < columns
              THEN last.ret = successResult(
                       [i \in 1 .. rows |-> CellOf(Before, t, i - 1, last.args[1])])
              ELSE Failed

(***************************************************************************)
(* C10.  Element writes are bounds-checked: setElementAt(row, col, v) and  *)
(* setElementInPlaceAt(row, col, v) fail when row is outside [0, rowCount) *)
(* or col is outside [0, columnCount), and then no cell of any table       *)
(* changes; within the bounds the resulting table holds v at (row, col)    *)
(* and the previous value in every other cell.  The code accepts the       *)
(* column index columnCount and writes storage[row * columnCount + col].   *)
(***************************************************************************)
C10_WriteBoundsChecked ==
    last.op \in {"setElementAt", "setElementInPlaceAt"} =>
        LET t == last.this
            r == last.args[1]
            c == last.args[2]
        IN  IF InRange(Before, t, r, c)
            THEN /\ Succeeded
                 /\ \A i \in 0 .. (rowCount(Before, t) - 1),
                       j \in 0 .. (columnCount(Before, t) - 1) :
                         CellOf(Heap, last.ret.val, i, j) =
                             IF i = r /\ j = c THEN last.args[3] ELSE CellOf(Before, t, i, j)
            ELSE /\ Failed
                 /\ Heap = Before

(***************************************************************************)
(* C11.  Insertion is validated: insertRowBefore(at, row) fails when the   *)
(* length of row differs from columnCount or at is outside [0, rowCount],  *)
(* insertColumnBefore(at, column) fails when the length of column differs  *)
(* from rowCount or at is outside [0, columnCount], and pushRow and        *)
(* pushColumn fail on the same length mismatch.  The code tests the index  *)
(* with `at < 0 && at >= count`, which no index satisfies.                 *)
(***************************************************************************)
C11_InsertionValidated ==
    LET t == last.this
        rows == rowCount(Before, t)
        columns == columnCount(Before, t)
    IN  /\ last.op = "insertRowBefore" =>
              ((Len(last.args[2]) # columns \/ last.args[1] < 0 \/ last.args[1] > rows)
                  => Failed)
        /\ last.op = "insertColumnBefore" =>
              ((Len(last.args[2]) # rows \/ last.args[1] < 0 \/ last.args[1] > columns)
                  => Failed)
        /\ last.op = "pushRow" => (Len(last.args[1]) # columns => Failed)
        /\ last.op = "pushColumn" => (Len(last.args[1]) # rows => Failed)

(***************************************************************************)
(* C12.  Push preserves tags: for a row of length columnCount, pushRow     *)
(* returns a table with rowCount + 1 rows, and for a column of length      *)
(* rowCount, pushColumn returns a table with columnCount + 1 columns; in   *)
(* both every cell there was keeps its value at its (row, column) and the  *)
(* result carries exactly the tags of the receiver.  pushColumn builds its *)
(* result with DataFrame.from, which starts from no tags.                  *)
(***************************************************************************)
C12_PushPreservesTags ==
    LET t == last.this
        d == last.ret.val
        rows == rowCount(Before, t)
        columns == columnCount(Before, t)
        kept == /\ \A i \in 0 .. (rows - 1), j \in 0 .. (columns - 1) :
                       CellOf(Heap, d, i, j) = CellOf(Before, t, i, j)
                /\ Range(frames[d].tags) = Range(Before.frames[t].tags)
                /\ Len(frames[d].tags) = Len(Before.frames[t].tags)
    IN  /\ (last.op = "pushRow" /\ Len(last.args[1]) = columns) =>
              /\ Succeeded
              /\ rowCount(Heap, d) = rows + 1
              /\ columnCount(Heap, d) = columns
              /\ kept
        /\ (last.op = "pushColumn" /\ Len(last.args[1]) = rows) =>
              /\ Succeeded
              /\ rowCount(Heap, d) = rows
              /\ columnCount(Heap, d) = columns + 1
              /\ kept

\* pushColumn on a table with rows and a tag: the part of C12 about the tags alone
C12_TaggedPushColumn ==
    (/\ last.op = "pushColumn"
     /\ Succeeded
     /\ rowCount(Before, last.this) > 0
     /\ Before.frames[last.this].tags # <<>>) =>
        Range(frames[last.ret.val].tags) = Range(Before.frames[last.this].tags)

(***************************************************************************)
(* C13.  Deletion is validated: deleteRowAt(at) fails whenever at is       *)
(* outside [0, rowCount()), deleteColumnAt(at) fails whenever at is        *)
(* outside [0, columnCount()); both fail for every index on a table with   *)
(* no rows or no columns; and a failed delete changes nothing.             *)
(***************************************************************************)
C13_Deleting == last.op \in {"deleteRowAt", "deleteColumnAt"}

\* C13, first part: an index outside [0, count) is refused
C13_IndexValidated ==
    LET t == last.this
        at == last.args[1]
    IN  /\ last.op = "deleteRowAt" =>
              ((at < 0 \/ at >= rowCount(Before, t)) => Failed)
        /\ last.op = "deleteColumnAt" =>
              ((at < 0 \/ at >= columnCount(Before, t)) => Failed)

\* C13, last part: a refused delete leaves every table as it was
C13_FailedDeleteChangesNothing ==
    (C13_Deleting /\ Failed) => Heap = Before

\* C13: both parts, and every delete on a table with no rows or no columns fails
C13_DeletionValidated ==
    /\ C13_IndexValidated
    /\ C13_FailedDeleteChangesNothing
    /\ (C13_Deleting
          /\ (rowCount(Before, last.this) = 0 \/ columnCount(Before, last.this) = 0))
        => Failed

(***************************************************************************)
(* C14.  Transpose never fails and moves data and tags together: the       *)
(* result is a new table with rowCount and columnCount swapped, its cell   *)
(* (j, i) holds the receiver's cell (i, j), and its tags are exactly the   *)
(* receiver's tags with Row(i) turned into Column(i), Column(j) into       *)
(* Row(j) and Cell(i, j) into Cell(j, i), names and values unchanged, none *)
(* added and none lost.                                                    *)
(***************************************************************************)
C14_TransposeMovesDataAndTags ==
    last.op = "transpose" =>
        LET t == last.this
            d == last.ret.val
            swapped(tag) ==
                [name |-> tag.name, value |-> tag.value,
                 coordinate |->
                    [kind |-> CASE tag.coordinate.kind = "row" -> "column"
                                [] tag.coordinate.kind = "column" -> "row"
                                [] OTHER -> "cell",
                     row |-> tag.coordinate.column,
                     column |-> tag.coordinate.row]]
        IN  /\ ~Failed
            /\ ReturnedNew
            /\ rowCount(Heap, d) = columnCount(Before, t)
            /\ columnCount(Heap, d) = rowCount(Before, t)
            /\ \A i \in 0 .. (rowCount(Before, t) - 1),
                  j \in 0 .. (columnCount(Before, t) - 1) :
                    CellOf(Heap, d, j, i) = CellOf(Before, t, i, j)
            /\ Len(frames[d].tags) = Len(Before.frames[t].tags)
            /\ \A k \in 1 .. Len(Before.frames[t].tags) :
                    frames[d].tags[k] = swapped(Before.frames[t].tags[k])

\* a 2 x 2 table with unlike off-diagonal cells, a column tag and a cell tag off the diagonal
C14_Witness ==
    /\ last.op = "transpose"
    /\ rowCount(Before, last.this) = 2
    /\ columnCount(Before, last.this) = 2
    /\ CellOf(Before, last.this, 0, 1) # CellOf(Before, last.this, 1, 0)
    /\ \E i, j \in 1 .. Len(Before.frames[last.this].tags) :
          /\ isColumnTag(Before.frames[last.this].tags[i])
          /\ Before.frames[last.this].tags[j].coordinate = CellCoordinate(1, 0)

(***************************************************************************)
(* C15.  Column deletion keeps data and tags anchored: a successful        *)
(* deleteColumnAt(c) yields a new table with one column fewer and the same *)
(* rows, in which the receiver's cell (i, j) is found at (i, j) for j < c  *)
(* and at (i, j - 1) for j > c; the tags Column(c) and Cell(i, c) are      *)
(* dropped, Column(j) and Cell(i, j) with j > c move to column j - 1, and  *)
(* row tags and tags of columns before c are unchanged.                    *)
(***************************************************************************)
C15_DeleteColumnAnchored ==
    (/\ last.op = "deleteColumnAt"
     /\ last.args[1] >= 0
     /\ last.args[1] < columnCount(Before, last.this)) =>
        LET t == last.this
            c == last.args[1]
            d == last.ret.val
            old == Range(Before.frames[t].tags)
            boundTo(tag, j) == ~isRowTag(tag) /\ tag.coordinate.column = j
            moved(tag) ==
                IF isRowTag(tag) \/ tag.coordinate.column < c THEN tag
                ELSE [tag EXCEPT !.coordinate.column = @ - 1]
        IN  /\ Succeeded
            /\ ReturnedNew
            /\ rowCount(Heap, d) = rowCount(Before, t)
            /\ columnCount(Heap, d) = columnCount(Before, t) - 1
            /\ \A i \in 0 .. (rowCount(Before, t) - 1),
                  j \in 0 .. (columnCount(Before, t) - 1) :
                    j # c => CellOf(Heap, d, i, IF j < c THEN j ELSE j - 1)
                                 = CellOf(Before, t, i, j)
            /\ Range(frames[d].tags) = {moved(tag) : tag \in {x \in old : ~boundTo(x, c)}}
            /\ Len(frames[d].tags) = Cardinality({x \in old : ~boundTo(x, c)})

\* column 0 of a table of two unlike columns goes: a tag of column 0 is dropped, one of column 1 moves
C15_Witness ==
    /\ last.op = "deleteColumnAt"
    /\ last.args[1] = 0
    /\ Succeeded
    /\ rowCount(Before, last.this) = 2
    /\ columnCount(Before, last.this) = 2
    /\ CellOf(Before, last.this, 1, 0) # CellOf(Before, last.this, 1, 1)
    /\ \E i, j \in 1 .. Len(Before.frames[last.this].tags) :
          /\ Before.frames[last.this].tags[i].coordinate.column = 0
          /\ Before.frames[last.this].tags[j].coordinate.column = 1

(***************************************************************************)
(* C16.  Insertion keeps data and tags anchored: a successful              *)
(* insertRowBefore(at, row) yields a new table with one row more whose row *)
(* at index at is the inserted row, whose original row i is found at i if  *)
(* i < at and at i + 1 if i >= at, and whose tags are the receiver's with  *)
(* Row(i) and Cell(i, j) moved to row i + 1 exactly when i >= at and       *)
(* column tags unchanged; insertColumnBefore(at, column) does the same     *)
(* along the column axis.                                                  *)
(***************************************************************************)
C16_RowInserted ==
    LET t == last.this
        at == last.args[1]
        row == last.args[2]
        d == last.ret.val
        old == Before.frames[t].tags
        moved(tag) ==
            IF isColumnTag(tag) \/ tag.coordinate.row < at THEN tag
            ELSE [tag EXCEPT !.coordinate.row = @ + 1]
    IN  /\ ReturnedNew
        /\ rowCount(Heap, d) = rowCount(Before, t) + 1
        /\ columnCount(Heap, d) = columnCount(Before, t)
        /\ at >= 0 /\ at < rowCount(Heap, d)
        /\ \A j \in 0 .. (columnCount(Before, t) - 1) : CellOf(Heap, d, at, j) = row[j + 1]
        /\ \A i \in 0 .. (rowCount(Before, t) - 1), j \in 0 .. (columnCount(Before, t) - 1) :
                CellOf(Heap, d, IF i < at THEN i ELSE i + 1, j) = CellOf(Before, t, i, j)
        /\ Range(frames[d].tags) = {moved(tag) : tag \in Range(old)}
        /\ Len(frames[d].tags) = Len(old)

C16_ColumnInserted ==
    LET t == last.this
        at == last.args[1]
        column == last.args[2]
        d == last.ret.val
        old == Before.frames[t].tags
        moved(tag) ==
            IF isRowTag(tag) \/ tag.coordinate.column < at THEN tag
            ELSE [tag EXCEPT !.coordinate.column = @ + 1]
    IN  /\ ReturnedNew
        /\ rowCount(Heap, d) = rowCount(Before, t)
        /\ columnCount(Heap, d) = columnCount(Before, t) + 1
        /\ at >= 0 /\ at < columnCount(Heap, d)
        /\ \A i \in 0 .. (rowCount(Before, t) - 1) : CellOf(Heap, d, i, at) = column[i + 1]
        /\ \A i \in 0 .. (rowCount(Before, t) - 1), j \in 0 .. (columnCount(Before, t) - 1) :
                CellOf(Heap, d, i, IF j < at THEN j ELSE j + 1) = CellOf(Before, t, i, j)
        /\ Range(frames[d].tags) = {moved(tag) : tag \in Range(old)}
        /\ Len(frames[d].tags) = Len(old)

\* C16: every successful insertRowBefore and insertColumnBefore keeps data and tags anchored
C16_InsertionAnchored ==
    /\ (last.op = "insertRowBefore" /\ Succeeded) => C16_RowInserted
    /\ (last.op = "insertColumnBefore" /\ Succeeded) => C16_ColumnInserted

\* the same for the calls whose index lies within [0, count]
C16_AnchoredWithinRange ==
    /\ (last.op = "insertRowBefore" /\ Succeeded
          /\ last.args[1] >= 0 /\ last.args[1] <= rowCount(Before, last.this))
        => C16_RowInserted
    /\ (last.op = "insertColumnBefore" /\ Succeeded
          /\ last.args[1] >= 0 /\ last.args[1] <= columnCount(Before, last.this))
        => C16_ColumnInserted

(***************************************************************************)
(* C17.  subFrame data and bounds: subFrame(start, end) fails if the row   *)
(* or the column of start or of end is outside the table; otherwise, for   *)
(* start <= end in both coordinates, it returns a new table of             *)
(* end.row - start.row + 1 rows and end.column - start.column + 1 columns  *)
(* whose cell (i, j) is the receiver's cell (start.row + i,                *)
(* start.column + j).                                                      *)
(***************************************************************************)
C17_SubFrameDataAndBounds ==
    last.op = "subFrame" =>
        LET t == last.this
            start == last.args[1]
            end == last.args[2]
            d == last.ret.val
            inside == /\ InRange(Before, t, start.row, start.column)
                      /\ InRange(Before, t, end.row, end.column)
        IN  /\ ~inside => Failed
            /\ (inside /\ start.row <= end.row /\ start.column <= end.column) =>
                  /\ Succeeded
                  /\ ReturnedNew
                  /\ rowCount(Heap, d) = end.row - start.row + 1
                  /\ columnCount(Heap, d) = end.column - start.column + 1
                  /\ \A i \in 0 .. (end.row - start.row), j \in 0 .. (end.column - start.column) :
                        CellOf(Heap, d, i, j) = CellOf(Before, t, start.row + i, start.column + j)

\* the second column of a 2 x 2 table whose columns differ is selected
C17_Witness ==
    /\ last.op = "subFrame"
    /\ Succeeded
    /\ rowCount(Before, last.this) = 2
    /\ columnCount(Before, last.this) = 2
    /\ last.args[1] = Index(0, 1)
    /\ last.args[2] = Index(1, 1)
    /\ CellOf(Before, last.this, 1, 0) # CellOf(Before, last.this, 1, 1)

\* a selection with a corner outside the table is refused
C17_WitnessRefused ==
    /\ last.op = "subFrame"
    /\ Failed
    /\ rowCount(Before, last.this) = 2
    /\ last.args[1] = Index(0, 0)
    /\ last.args[2] = Index(0, MaxCols)

(***************************************************************************)
(* C18.  subFrame tag remap: in the table a successful subFrame(start,     *)
(* end) returns, a tag Row(i) of the receiver is kept iff                  *)
(* start.row <= i <= end.row and becomes Row(i - start.row), a tag         *)
(* Column(j) is kept iff start.column <= j <= end.column and becomes       *)
(* Column(j - start.column), a tag Cell(i, j) is kept iff both hold and    *)
(* becomes Cell(i - start.row, j - start.column); every other tag is       *)
(* dropped, and no tag of the result lies outside the result's bounds.     *)
(***************************************************************************)
C18_SubFrameTagRemap ==
    (last.op = "subFrame" /\ Succeeded) =>
        LET t == last.this
            start == last.args[1]
            end == last.args[2]
            d == last.ret.val
            old == Range(Before.frames[t].tags)
            rowKept(tag) ==
                isColumnTag(tag)
                    \/ (start.row <= tag.coordinate.row /\ tag.coordinate.row <= end.row)
            columnKept(tag) ==
                isRowTag(tag)
                    \/ (start.column <= tag.coordinate.column
                            /\ tag.coordinate.column <= end.column)
            kept == {tag \in old : rowKept(tag) /\ columnKept(tag)}
            translated(tag) ==
                [name |-> tag.name, value |-> tag.value,
                 coordinate |->
                    [kind |-> tag.coordinate.kind,
                     row |-> IF isColumnTag(tag) THEN NaN ELSE tag.coordinate.row - start.row,
                     column |-> IF isRowTag(tag) THEN NaN
                                ELSE tag.coordinate.column - start.column]]
        IN  /\ Range(frames[d].tags) = {translated(tag) : tag \in kept}
            /\ Len(frames[d].tags) = Cardinality(kept)
            /\ \A tag \in Range(frames[d].tags) :
                  /\ ~isColumnTag(tag) =>
                        (tag.coordinate.row >= 0 /\ tag.coordinate.row < rowCount(Heap, d))
                  /\ ~isRowTag(tag) =>
                        (tag.coordinate.column >= 0
                            /\ tag.coordinate.column < columnCount(Heap, d))

\* the second row of a table is selected: a tag of row 0 is dropped, a tag of row 1 becomes row 0
C18_Witness ==
    /\ last.op = "subFrame"
    /\ Succeeded
    /\ last.args[1] = Index(1, 0)
    /\ last.args[2].row = 1
    /\ Len(frames[last.ret.val].tags) = 1
    /\ \E i, j \in 1 .. Len(Before.frames[last.this].tags) :
          /\ ~isColumnTag(Before.frames[last.this].tags[i])
          /\ Before.frames[last.this].tags[i].coordinate.row = 0
          /\ ~isColumnTag(Before.frames[last.this].tags[j])
          /\ Before.frames[last.this].tags[j].coordinate.row = 1

(***************************************************************************)
(* C19.  Factory validation: from(data) and fromColumnData(data) succeed   *)
(* whenever every inner array of data has the same length, and otherwise   *)
(* return a failure whose message reports the minimum and the maximum      *)
(* observed inner-array length; empty() always succeeds with zero rows,    *)
(* zero columns and no tags.                                               *)
(***************************************************************************)
C19_Lengths == {Len(last.args[1][i]) : i \in 1 .. Len(last.args[1])}

C19_Uniform == Cardinality(C19_Lengths) <= 1

\* the failure names the smallest and the largest inner-array length
C19_ReportsMinAndMax ==
    /\ Failed
    /\ \E min, max \in C19_Lengths :
          /\ \A n \in C19_Lengths : min <= n /\ n <= max
          /\ last.ret.val = <<"validateDimensions", min, max>>

C19_EmptySucceeds ==
    last.op = "empty" =>
        /\ Succeeded
        /\ ReturnedNew
        /\ rowCount(Heap, last.ret.val) = 0
        /\ columnCount(Heap, last.ret.val) = 0
        /\ frames[last.ret.val].tags = <<>>

\* C19: inner arrays of one length are accepted, any other input fails naming the minimum
\* and the maximum length, and empty() succeeds with no rows, no columns and no tags
C19_FactoryValidation ==
    /\ last.op \in {"from", "fromColumnData"} =>
          /\ C19_Uniform => (Succeeded /\ ReturnedNew)
          /\ ~C19_Uniform => C19_ReportsMinAndMax
    /\ C19_EmptySucceeds

\* C19 as the code has it: inner arrays of equal length are accepted when that length is not
\* 0 (or when there is no inner array at all), every other input fails reporting the minimum
\* and the maximum length; empty() always succeeds with no rows, no columns and no tags.
C19_FactoryValidationNonEmpty ==
    /\ last.op \in {"from", "fromColumnData"} =>
          LET accepted == C19_Uniform /\ 0 \notin C19_Lengths
          IN  /\ accepted => (Succeeded /\ ReturnedNew)
              /\ ~accepted => C19_ReportsMinAndMax
    /\ C19_EmptySucceeds

\* columns of 1 and 2 cells are refused
C19_Witness ==
    /\ last.op = "fromColumnData"
    /\ Failed
    /\ C19_Lengths = {1, 2}

\* two inner arrays without cells are refused, with minimum and maximum 0
C19_WitnessEmptyRows ==
    /\ last.op = "from"
    /\ Len(last.args[1]) = 2
    /\ C19_Lengths = {0}
    /\ Failed
    /\ last.ret.val = <<"validateDimensions", 0, 0>>

(***************************************************************************)
(* C20.  Column-form construction is the transpose of row-form             *)
(* construction: for c columns each of length r, fromColumnData(cols)      *)
(* yields a table with rowCount() = r and columnCount() = c whose cell     *)
(* (i, j) equals cols[j][i], i.e. the same table as from(rows) where       *)
(* rows[i][j] = cols[j][i].                                                *)
(***************************************************************************)
C20_Columns == Len(last.args[1])

C20_Rows == IF last.args[1] = <<>> THEN 0 ELSE Len(last.args[1][1])

\* rows[i][j] = cols[j][i]
C20_RowForm == [i \in 1 .. C20_Rows |-> [j \in 1 .. C20_Columns |-> last.args[1][j][i]]]

C20_IsTransposeOfRowForm ==
    LET cols == last.args[1]
        d == last.ret.val
        R == from(Before, C20_RowForm, TRUE)
    IN  /\ Succeeded
        /\ ReturnedNew
        /\ rowCount(Heap, d) = C20_Rows
        /\ columnCount(Heap, d) = C20_Columns
        /\ \A i \in 0 .. (C20_Rows - 1), j \in 0 .. (C20_Columns - 1) :
              CellOf(Heap, d, i, j) = cols[j + 1][i + 1]
        /\ R.returned.status = "success"
        /\ Table(R, R.returned.val) = Table(Heap, d)

\* C20: for every input whose columns all have one length r
C20_ColumnFormIsTranspose ==
    (last.op = "fromColumnData" /\ C19_Uniform /\ C20_Columns > 0)
        => C20_IsTransposeOfRowForm

\* C20 as the code has it: for c >= 1 columns each of length r >= 1, fromColumnData(cols)
\* yields the table of r rows and c columns whose cell (i, j) is cols[j][i], the same table
\* as from(rows) with rows[i][j] = cols[j][i]; columns without cells are refused.
C20_ColumnFormIsTransposeNonEmpty ==
    (last.op = "fromColumnData" /\ C19_Uniform /\ C20_Columns > 0 /\ C20_Rows > 0)
        => C20_IsTransposeOfRowForm

\* two columns of two cells whose transpose is another table
C20_Witness ==
    /\ last.op = "fromColumnData"
    /\ Succeeded
    /\ C20_Columns = 2
    /\ C20_Rows = 2
    /\ last.args[1][1][2] # last.args[1][2][1]

(***************************************************************************)
(* C21.  Tagging validates and upserts: tagRow, tagColumn and tagCell      *)
(* return a failure and leave the table as it was whenever an index is     *)
(* outside [0, rowCount()) resp. [0, columnCount()); on success the table  *)
(* holds exactly one tag with that name and coordinate, carrying the value *)
(* just supplied, and every other tag is unchanged.                        *)
(***************************************************************************)
C21_Coordinate ==
    CASE last.op = "tagRow" -> RowCoordinate(last.args[1])
      [] last.op = "tagColumn" -> ColumnCoordinate(last.args[1])
      [] OTHER -> CellCoordinate(last.args[1], last.args[2])

C21_IndexInside ==
    LET t == last.this
    IN  CASE last.op = "tagRow" -> last.args[1] >= 0 /\ last.args[1] < rowCount(Before, t)
          [] last.op = "tagColumn" -> last.args[1] >= 0 /\ last.args[1] < columnCount(Before, t)
          [] OTHER -> InRange(Before, t, last.args[1], last.args[2])

C21_WitnessRefused ==
    /\ last.op = "tagCell"
    /\ Failed
    /\ last.args[1] = 0
    /\ rowCount(Before, last.this) > 0
    /\ last.args[2] = columnCount(Before, last.this)
    /\ Before.frames[last.this].tags # <<>>

(***************************************************************************)
(* C22.  cellsTaggedWith(tag) fails iff a bound index of the tag's         *)
(* coordinate is outside the table; otherwise, when the table holds a tag  *)
(* equal to it (same name, same value, same coordinate), it returns all    *)
(* columnCount() cells (value, r, c) of row r for a Row(r) tag, all        *)
(* rowCount() cells of column c for a Column(c) tag and the single cell    *)
(* (value, r, c) for a Cell(r, c) tag, and an empty list when the table    *)
(* holds no such tag.                                                      *)
(***************************************************************************)
C22_CellsTaggedWith ==
    last.op = "cellsTaggedWith" =>
        LET t == last.this
            tag == last.args[1]
            r == tag.coordinate.row
            c == tag.coordinate.column
            rows == rowCount(Heap, t)
            columns == columnCount(Heap, t)
            outside == \/ tag.coordinate.kind # "column" /\ (r < 0 \/ r >= rows)
                       \/ tag.coordinate.kind # "row" /\ (c < 0 \/ c >= columns)
            held == \E k \in 1 .. Len(frames[t].tags) : frames[t].tags[k] = tag
            cells ==
                CASE tag.coordinate.kind = "row" ->
                        [j \in 1 .. columns |->
                            [value |-> CellOf(Heap, t, r, j - 1), row |-> r, column |-> j - 1]]
                  [] tag.coordinate.kind = "column" ->
                        [i \in 1 .. rows |->
                            [value |-> CellOf(Heap, t, i - 1, c), row |-> i - 1, column |-> c]]
                  [] OTHER -> <<[value |-> CellOf(Heap, t, r, c), row |-> r, column |-> c]>>
        IN  /\ Failed <=> outside
            /\ ~outside =>
                  /\ Succeeded
                  /\ last.ret.val = IF held THEN cells ELSE <<>>
            /\ Heap = Before

\* the cells of a tagged column of a table of two rows are asked for
C22_Witness ==
    /\ last.op = "cellsTaggedWith"
    /\ Succeeded
    /\ isColumnTag(last.args[1])
    /\ rowCount(Heap, last.this) = 2
    /\ Len(last.ret.val) = 2

\* the table holds a tag of that name and coordinate with another value: no cell is returned
C22_WitnessOtherValue ==
    /\ last.op = "cellsTaggedWith"
    /\ Succeeded
    /\ last.ret.val = <<>>
    /\ \E k \in 1 .. Len(frames[last.this].tags) :
          /\ frames[last.this].tags[k].name = last.args[1].name
          /\ frames[last.this].tags[k].coordinate = last.args[1].coordinate
          /\ frames[last.this].tags[k].value # last.args[1].value

\* C22 on the tables whose storage holds rowCount() * columnCount() cells
C22_OnWellFormedTables ==
    (last.op = "cellsTaggedWith"
        /\ Len(DataOf(Heap, last.this)) = rowCount(Heap, last.this) * columnCount(Heap, last.this))
        => C22_CellsTaggedWith

(***************************************************************************)
(* C23.  Out-of-range tag queries never fail and never find tags: for      *)
(* every row index outside [0, rowCount()) or column index outside         *)
(* [0, columnCount()), rowTagsFor, columnTagsFor, cellTagsFor and tagsFor  *)
(* return an empty list and hasRowTagFor, hasColumnTagFor, hasCellTagFor   *)
(* and hasTagFor return false; equivalently, no tag of a table is bound to *)
(* a row or a column the table does not have.                              *)
(***************************************************************************)
C23_Queries ==
    {"rowTagsFor", "columnTagsFor", "cellTagsFor", "tagsFor",
     "hasRowTagFor", "hasColumnTagFor", "hasCellTagFor", "hasTagFor"}

C23_IndexOutside ==
    LET t == last.this
        rowOut(i) == i < 0 \/ i >= rowCount(Heap, t)
        columnOut(j) == j < 0 \/ j >= columnCount(Heap, t)
    IN  CASE last.op \in {"rowTagsFor", "hasRowTagFor"} -> rowOut(last.args[1])
          [] last.op \in {"columnTagsFor", "hasColumnTagFor"} -> columnOut(last.args[1])
          [] OTHER -> rowOut(last.args[1]) \/ columnOut(last.args[2])

\* C23, on the tables held: every bound index of every tag is an index of the table
C23_TagsWithinTable ==
    \A f \in FrameIds :
        Live(Heap, f) =>
            \A k \in 1 .. Len(frames[f].tags) :
                LET tag == frames[f].tags[k]
                IN  /\ ~isColumnTag(tag) =>
                          (tag.coordinate.row >= 0 /\ tag.coordinate.row < frames[f].numRows)
                    /\ ~isRowTag(tag) =>
                          (tag.coordinate.column >= 0
                              /\ tag.coordinate.column < frames[f].numColumns)

\* C23: a query at an index outside the table answers "no tags"
C23_OutOfRangeQueriesFindNothing ==
    /\ (last.op \in C23_Queries /\ C23_IndexOutside) =>
          /\ last.ret.status = "value"
          /\ last.op \in {"rowTagsFor", "columnTagsFor", "cellTagsFor", "tagsFor"}
                => last.ret.val = <<>>
          /\ last.op \in {"hasRowTagFor", "hasColumnTagFor", "hasCellTagFor", "hasTagFor"}
                => last.ret.val = FALSE
    /\ C23_TagsWithinTable

\* a tagged table is asked for the tags of the row past its last row
C23_Witness ==
    /\ last.op = "rowTagsFor"
    /\ last.args[1] = rowCount(Heap, last.this)
    /\ rowCount(Heap, last.this) > 0
    /\ frames[last.this].tags # <<>>
    /\ last.ret.val = <<>>

(***************************************************************************)
(* C24.  Tags.with de-duplicates with later-wins: for any argument list,   *)
(* the resulting collection contains, for each distinct (name, coordinate) *)
(* among the arguments, exactly one tag, and it is the last argument with  *)
(* that (name, coordinate); it contains nothing else, and an empty         *)
(* argument list yields an empty collection.                               *)
(***************************************************************************)
C24_WithLaterWins ==
    last.op = "Tags.with" =>
        LET given == last.args[1]
            result == last.ret.val
            sameKey(a, b) == a.name = b.name /\ a.coordinate = b.coordinate
            \* the positions of the arguments no later argument has the key of
            lasts == {i \in 1 .. Len(given) :
                        \A j \in (i + 1) .. Len(given) : ~sameKey(given[i], given[j])}
        IN  /\ Succeeded
            /\ Len(result) = Cardinality(lasts)
            /\ \A i \in lasts :
                  /\ Cardinality({k \in 1 .. Len(result) : sameKey(result[k], given[i])}) = 1
                  /\ \E k \in 1 .. Len(result) : result[k] = given[i]
            /\ given = <<>> => result = <<>>

\* three tags are given, the first and the last with one name and coordinate and unlike values
C24_Witness ==
    /\ last.op = "Tags.with"
    /\ Len(last.args[1]) = 3
    /\ last.args[1][1].name = last.args[1][3].name
    /\ last.args[1][1].coordinate = last.args[1][3].coordinate
    /\ last.args[1][1].value # last.args[1][3].value
    /\ Len(last.ret.val) = 2

(***************************************************************************)
(* C25.  add and replace have complementary success conditions and never   *)
(* mutate the receiver: on a collection obeying uniqueness, add(tag)       *)
(* succeeds iff no tag with the same (name, coordinate) exists and then    *)
(* returns a new collection equal to the old one with tag appended at the  *)
(* end; replace(tag) succeeds iff such a tag exists and then returns a new *)
(* collection of the same length and order with only that tag swapped for  *)
(* the new one; in every case the collection the method was called on is   *)
(* unchanged.                                                              *)
(***************************************************************************)
C25_AddReplaceComplementary ==
    (last.op \in {"Tags.add", "Tags.replace"} /\ Unique(pre.coll)) =>
        LET tag == last.args[1]
            old == pre.coll
            sameKey(a) == a.name = tag.name /\ a.coordinate = tag.coordinate
            exists == \E k \in 1 .. Len(old) : sameKey(old[k])
        IN  /\ last.ret.status \in {"success", "failure"}
            /\ last.op = "Tags.add" =>
                  /\ Succeeded <=> ~exists
                  /\ Succeeded => last.ret.val = old \o <<tag>>
            /\ last.op = "Tags.replace" =>
                  /\ Succeeded <=> exists
                  /\ Succeeded =>
                        /\ Len(last.ret.val) = Len(old)
                        /\ \A k \in 1 .. Len(old) :
                              last.ret.val[k] = IF sameKey(old[k]) THEN tag ELSE old[k]
            /\ coll = old

\* the second of two tags is replaced by a tag of another value
C25_Witness ==
    /\ last.op = "Tags.replace"
    /\ Succeeded
    /\ Len(pre.coll) = 2
    /\ pre.coll[2].name = last.args[1].name
    /\ pre.coll[2].coordinate = last.args[1].coordinate
    /\ pre.coll[2].value # last.args[1].value

\* a tag is added to a collection of two tags
C25_WitnessAdd ==
    /\ last.op = "Tags.add"
    /\ Succeeded
    /\ Len(pre.coll) = 2
    /\ Len(last.ret.val) = 3

\* a tag that is already there is not added
C25_WitnessAddRefused ==
    /\ last.op = "Tags.add"
    /\ Failed
    /\ pre.coll # <<>>

(***************************************************************************)
(* C26.  addOrReplace never fails and is an upsert: the result contains    *)
(* exactly one tag with the tag's (name, coordinate) and it carries the    *)
(* new value; the length grows by one if no such tag existed and is        *)
(* unchanged otherwise; all other tags are unchanged; and applying         *)
(* addOrReplace with the same tag a second time yields a collection with   *)
(* the same tags as applying it once.                                      *)
(***************************************************************************)
C26_AddOrReplaceUpserts ==
    last.op = "Tags.addOrReplace" =>
        LET tag == last.args[1]
            old == pre.coll
            new == last.ret.val
            sameKey(a) == a.name = tag.name /\ a.coordinate = tag.coordinate
            others(tags) == SelectSeq(tags, LAMBDA a : ~sameKey(a))
            hits == SelectSeq(new, sameKey)
            existed == \E k \in 1 .. Len(old) : sameKey(old[k])
            twice == Tags_result(Tags_addOrReplaceOn(<<new>>, 1, tag))
        IN  /\ Succeeded
            /\ hits = <<tag>>
            /\ Len(new) = IF existed THEN Len(old) ELSE Len(old) + 1
            /\ others(new) = others(old)
            /\ twice.status = "success"
            /\ twice.val = new

\* a tag of the collection is given another value
C26_Witness ==
    /\ last.op = "Tags.addOrReplace"
    /\ Len(pre.coll) = 2
    /\ Len(last.ret.val) = 2
    /\ last.ret.val # pre.coll

\* a tag the collection does not have is added to it
C26_WitnessAdded ==
    /\ last.op = "Tags.addOrReplace"
    /\ Len(pre.coll) = 1
    /\ Len(last.ret.val) = 2

(***************************************************************************)
(* C27.  remove(id) fails iff no tag in the collection has that id;        *)
(* otherwise it returns a new collection that lacks exactly the one tag    *)
(* whose (name, coordinate) produced that id and keeps every other tag in  *)
(* its original order, leaving the receiver unchanged; two tags have the   *)
(* same id iff they have the same name and equal coordinates.              *)
(***************************************************************************)
C27_SameIdIffSameKey ==
    \A a, b \in CollInputs \cup TagInputs :
        TagId(a) = TagId(b) <=> (a.name = b.name /\ CoordEquals(a.coordinate, b.coordinate))

\* C27: remove by id, and the ids of the tags
C27_RemoveById ==
    /\ last.op = "Tags.remove" =>
          LET id == last.args[1]
              old == pre.coll
              hits == {k \in 1 .. Len(old) : TagId(old[k]) = id}
          IN  /\ last.ret.status \in {"success", "failure"}
              /\ Failed <=> hits = {}
              /\ Succeeded =>
                    /\ Cardinality(hits) = 1
                    /\ Len(last.ret.val) = Len(old) - 1
                    /\ last.ret.val = SelectSeq(old, LAMBDA tag : TagId(tag) # id)
              /\ coll = old
    /\ C27_SameIdIffSameKey

\* the second of two tags is removed
C27_Witness ==
    /\ last.op = "Tags.remove"
    /\ Succeeded
    /\ Len(pre.coll) = 2
    /\ TagId(pre.coll[2]) = last.args[1]
    /\ last.ret.val = <<pre.coll[1]>>

\* an id no tag of the collection has is refused
C27_WitnessRefused ==
    /\ last.op = "Tags.remove"
    /\ Failed
    /\ pre.coll # <<>>

C28_WitnessPersistent ==
    /\ last.op = "mapRow"
    /\ Succeeded
    /\ last.args[1] = 1
    /\ rowCount(Before, last.this) = 2
    /\ columnCount(Before, last.this) = 2
    /\ DataOf(Heap, last.ret.val) # DataOf(Heap, last.this)

(***************************************************************************)
(* C29.  equals respects shape: whenever a.equals(b) is true, a and b have *)
(* the same rowCount() and the same columnCount() and hold identical       *)
(* values in every cell (row, column); two tables with different           *)
(* dimensions are never reported equal, even if their flattened row-major  *)
(* contents coincide.                                                      *)
(***************************************************************************)
C29_EqualsRespectsShape ==
    (last.op = "equals" /\ last.ret.val = TRUE) =>
        LET a == last.this
            b == last.args[1]
        IN  /\ rowCount(Heap, a) = rowCount(Heap, b)
            /\ columnCount(Heap, a) = columnCount(Heap, b)
            /\ \A i \in 0 .. (rowCount(Heap, a) - 1), j \in 0 .. (columnCount(Heap, a) - 1) :
                  CellOf(Heap, a, i, j) = CellOf(Heap, b, i, j)

\* C29 for two well-formed tables of the same dimensions: equals is true iff all cells agree
C29_EqualsOnSameShape ==
    (/\ last.op = "equals"
     /\ rowCount(Heap, last.this) = rowCount(Heap, last.args[1])
     /\ columnCount(Heap, last.this) = columnCount(Heap, last.args[1])
     /\ \A f \in {last.this, last.args[1]} :
            Len(DataOf(Heap, f)) = rowCount(Heap, f) * columnCount(Heap, f)) =>
        (last.ret.val = TRUE <=>
            \A i \in 0 .. (rowCount(Heap, last.this) - 1),
               j \in 0 .. (columnCount(Heap, last.this) - 1) :
                  CellOf(Heap, last.this, i, j) = CellOf(Heap, last.args[1], i, j))

(***************************************************************************)
(* C30.  subFrame with reversed corners never produces a malformed table:  *)
(* for every pair of in-bounds corners with start.row > end.row or         *)
(* start.column > end.column, subFrame(start, end) either fails or returns *)
(* a table with rowCount() >= 0, columnCount() >= 0 and a storage of       *)
(* rowCount() * columnCount() values.                                      *)
(***************************************************************************)
C30_ReversedCorners ==
    /\ last.op = "subFrame"
    /\ InRange(Before, last.this, last.args[1].row, last.args[1].column)
    /\ InRange(Before, last.this, last.args[2].row, last.args[2].column)
    /\ \/ last.args[1].row > last.args[2].row
       \/ last.args[1].column > last.args[2].column

\* C30: a selection with reversed corners is refused or well-formed
C30_ReversedSubFrameWellFormed ==
    C30_ReversedCorners =>
        \/ Failed
        \/ /\ Succeeded
           /\ rowCount(Heap, last.ret.val) >= 0
           /\ columnCount(Heap, last.ret.val) >= 0
           /\ Len(DataOf(Heap, last.ret.val))
                 = rowCount(Heap, last.ret.val) * columnCount(Heap, last.ret.val)

\* C30 for corners reversed by one row or one column: the selection has no cells
C30_ReversedByOne ==
    (/\ C30_ReversedCorners
     /\ last.args[1].row <= last.args[2].row + 1
     /\ last.args[1].column <= last.args[2].column + 1)
        => C30_ReversedSubFrameWellFormed

====
